---- MODULE Spec2Model ----
(***************************************************************************)
(* Credit-assessment server: the recommendation sanitizer, the rule-based  *)
(* fallback scorer, the fact combiner and the analysis orchestrator.       *)
(*                                                                         *)
(* JavaScript values are modelled as records of one shape,                 *)
(*   [t |-> type tag, n/d |-> a rational number, s |-> text, a |-> items]. *)
(* A JavaScript string is a sequence of atoms: " " is a whitespace         *)
(* character, "0".."9" are digits, every other atom is an unbreakable word *)
(* of non-blank characters.  A JavaScript number is the rational n/d in    *)
(* lowest terms; NaN has its own tag.                                      *)
(***************************************************************************)
EXTENDS Integers, Sequences, FiniteSets, TLC

\* ------------------------------------------------------------------ bounds
MaxFields == 2

MaxRecords == 2

MaxImages == 2

MaxResults == 3

MaxFiles == 2

MaxDocuments == 7

VARIABLES
    sPc,          \* sanitizer harness: "input" | "sanitized" | "resanitized" | "raised"
    raw,          \* the raw reasoner object handed to the sanitizer
    sanitized,    \* sanitizeCreditRecommendation(raw)
    resanitized,  \* sanitizeCreditRecommendation(sanitized)
    clock,        \* the wall clock read by new Date()
    fPc,          \* fallback harness: "input" | "scored"
    records,      \* the processing results (processDocuments' output)
    fallbackOut,  \* generateFallbackRecommendation(records)
    fallbackConfidence, \* calculateFallbackConfidence(records)
    cPc,          \* combiner harness: "input" | "combined"
    facts,        \* the facts extracted from one document's images, in image order
    declaredType, \* determineDocumentType(file.originalName)
    combined,     \* combineExtractedData(facts, declaredType)
    aPc,          \* analyzeCredit: "input" | "awaiting" (the reasoner call) | "done"
    summary,      \* documentSummary, built before the reasoner is called
    reasonerCalls, \* how often analyzeCredit has called generateCreditRecommendation
    fallbackRuns, \* how often analyzeCredit's catch block has run the fallback scorer
    xPc,          \* extractJSON harness: "input" | "extracted"
    replyText,    \* the argument of extractJSON
    pieces,       \* the number of pieces the text was put together from
    extractedJSON, \* extractJSON(replyText): the value returned or the error raised
    kPc,          \* startProcessing: "idle" | "upload" | "process" (the pending await)
    uploaded,     \* the hook's files: the status of each, in order
    isProcessing, \* the hook's isProcessing
    processorState, \* the hook's processorState: currentStage and progress
    analysisResults, \* the hook's results: "null" or "results"
    uploadResponse, \* what apiClient.uploadFiles settled with in this run
    processResponse, \* what apiClient.processDocuments settled with in this run
    stageLog,     \* the stages setProcessorState was called with in this run, in order
    alerted,      \* the message of the alert this run has shown
    outcome,      \* how the reasoner call ended: an error or the response received
    result,       \* what analyzeCredit returned
    hPc,          \* /api/process handler: "idle" | "processing" | "analyzing" | "responded"
    files,        \* req.body.files
    fileIx,       \* processDocuments: index of the file the loop is at
    dPc,          \* processIndividualDocument: "start" | "convert" | "extract" | "finally"
    images,       \* images.length of the document being processed
    extractedDataArray, \* the facts extracted so far from the document being processed
    pending,      \* completion of the try block awaiting the finally block
    cleaned,      \* indices of the files whose temp directory fs.remove was called on
    response      \* the HTTP response sent

sanVars == <<sPc, raw, sanitized, resanitized, clock>>

fbVars == <<fPc, fallbackOut, fallbackConfidence>>

cmbVars == <<cPc, facts, declaredType, combined>>

anVars == <<aPc, summary, outcome, result, reasonerCalls, fallbackRuns>>

docVars == <<fileIx, dPc, images, extractedDataArray, pending, cleaned>>

procVars == <<hPc, files, response, docVars>>

txtVars == <<xPc, replyText, pieces, extractedJSON>>

hookVars ==
    <<kPc, uploaded, isProcessing, processorState, analysisResults, uploadResponse,
      processResponse, stageLog, alerted>>

restVars == <<txtVars, hookVars>>

vars == <<sanVars, fbVars, records, cmbVars, anVars, procVars, restVars>>

\* ------------------------------------------------------ JavaScript values
JSV(t, n, d, s, a) == [t |-> t, n |-> n, d |-> d, s |-> s, a |-> a]

Undefined == JSV("undefined", 0, 1, <<>>, <<>>)

Null == JSV("null", 0, 1, <<>>, <<>>)

NaN == JSV("nan", 0, 1, <<>>, <<>>)

Obj == JSV("object", 0, 1, <<>>, <<>>)

\* the object {"toString": 1}: its own toString property is not a function
ObjNoToString == JSV("object", 0, 1, <<"toString">>, <<>>)

Bool(b) == JSV("boolean", IF b THEN 1 ELSE 0, 1, <<>>, <<>>)

Str(s) == JSV("string", 0, 1, s, <<>>)

Arr(a) == JSV("array", 0, 1, <<>>, a)

Abs(x) == IF x < 0 THEN -x ELSE x

RECURSIVE GCD(_, _)
GCD(x, y) == IF y = 0 THEN x ELSE GCD(y, x % y)

\* the number n/d (d > 0), in lowest terms
Frac(n, d) ==
    LET g == GCD(Abs(n), d)
    IN  JSV("number", n \div g, d \div g, <<>>, <<>>)

Num(n) == JSV("number", n, 1, <<>>, <<>>)

IsNum(v) == v.t = "number"

NumLT(x, y) == x.n * y.d < y.n * x.d

NumLE(x, y) == x.n * y.d <= y.n * x.d

\* JavaScript truthiness, as used by x || y
Truthy(v) ==
    CASE v.t \in {"undefined", "null", "nan"} -> FALSE
      [] v.t = "number" -> v.n # 0
      [] v.t = "boolean" -> v.n = 1
      [] v.t = "string" -> v.s # <<>>
      [] OTHER -> TRUE

\* x || y
Or(x, y) == IF Truthy(x) THEN x ELSE y

\* ----------------------------------------------------------------- strings
Digits == <<"0", "1", "2", "3", "4", "5", "6", "7", "8", "9">>

IsDigit(c) == \E i \in 1..10 : Digits[i] = c

DigitVal(c) == (CHOOSE i \in 1..10 : Digits[i] = c) - 1

RECURSIVE TrimLeft(_)
TrimLeft(s) ==
    IF s # <<>> /\ Head(s) = " " THEN TrimLeft(Tail(s)) ELSE s

RECURSIVE TrimRight(_)
TrimRight(s) ==
    IF s # <<>> /\ s[Len(s)] = " " THEN TrimRight(SubSeq(s, 1, Len(s) - 1)) ELSE s

\* String.prototype.trim
Trim(s) == TrimRight(TrimLeft(s))

RECURSIVE DecVal(_)
DecVal(s) ==
    IF s = <<>> THEN 0
    ELSE 10 * DecVal(SubSeq(s, 1, Len(s) - 1)) + DigitVal(s[Len(s)])

\* Number("...") : blank text is 0, a digit run is its value, anything else NaN
StrToNumber(s) ==
    LET t == Trim(s)
    IN  IF t = <<>> THEN Num(0)
        ELSE IF \A i \in 1..Len(t) : IsDigit(t[i]) THEN Num(DecVal(t))
        ELSE NaN

RECURSIVE NatToStr(_)
NatToStr(n) ==
    IF n < 10 THEN <<Digits[n + 1]>>
    ELSE NatToStr(n \div 10) \o <<Digits[(n % 10) + 1]>>

RECURSIVE FracDigits(_, _, _)
FracDigits(r, d, k) ==
    IF r = 0 \/ k = 0 THEN <<>>
    ELSE <<Digits[((r * 10) \div d) + 1]>> \o FracDigits((r * 10) % d, d, k - 1)

\* Number.prototype.toString of the finite number n/d
NumToStr(v) ==
    LET m == Abs(v.n)
        whole == NatToStr(m \div v.d)
        frac == FracDigits(m % v.d, v.d, 17)
    IN  (IF v.n < 0 THEN <<"-">> ELSE <<>>) \o whole
            \o (IF frac = <<>> THEN <<>> ELSE <<".">> \o frac)

\* toString of an array item inside Array.prototype.join
ItemToStr(v) ==
    CASE v.t = "string" -> v.s
      [] v.t = "number" -> NumToStr(v)
      [] v.t = "nan" -> <<"NaN">>
      [] v.t = "boolean" -> IF v.n = 1 THEN <<"true">> ELSE <<"false">>
      [] v.t = "object" -> <<"[object Object]">>
      [] OTHER -> <<>>

RECURSIVE Join(_)
Join(a) ==
    IF a = <<>> THEN <<>>
    ELSE IF Len(a) = 1 THEN ItemToStr(a[1])
    ELSE ItemToStr(a[1]) \o <<",">> \o Join(Tail(a))

\* x.toString() for a value that has the method (not undefined / null)
ToStr(v) == IF v.t = "array" THEN Join(v.a) ELSE ItemToStr(v)

\* ToNumber, the coercion Math.min / Math.max apply to each argument
ToNumber(v) ==
    CASE v.t = "number" -> v
      [] v.t = "null" -> Num(0)
      [] v.t = "boolean" -> Num(v.n)
      [] v.t = "string" -> StrToNumber(v.s)
      [] v.t = "array" -> StrToNumber(Join(v.a))
      [] OTHER -> NaN

MathMin(x, y) ==
    LET p == ToNumber(x)
        q == ToNumber(y)
    IN  IF p.t = "nan" \/ q.t = "nan" THEN NaN
        ELSE IF NumLE(p, q) THEN p ELSE q

MathMax(x, y) ==
    LET p == ToNumber(x)
        q == ToNumber(y)
    IN  IF p.t = "nan" \/ q.t = "nan" THEN NaN
        ELSE IF NumLE(q, p) THEN p ELSE q

\* new Date().toISOString() read at clock value c
IsoString(c) == JSV("string", c, 1, <<"iso-time">>, <<>>)

\* ---------------------------------------------------- recommendation sanitizer
\* keys of the reasoner's object (creditScore ...) and of the sanitized one (score ...)
RecKeys ==
    {"creditScore", "score", "rating", "riskLevel", "recommendation", "keyFactors",
     "improvementSuggestions", "maxCreditLimit", "interestRate", "reasoning",
     "analysisModel", "generatedAt", "confidence"}

EmptyObject == [k \in RecKeys |-> Undefined]

validRatings ==
    {Str(<<"Excellent">>), Str(<<"Good">>), Str(<<"Fair">>), Str(<<"Poor">>),
     Str(<<"Very Poor">>)}

validRiskLevels == {Str(<<"Low">>), Str(<<"Medium">>), Str(<<"High">>)}

\* mutant of validateRating: any string is accepted
validateRatingAnyString(rating) == IF rating.t = "string" THEN rating ELSE Null

validateRating(rating) == IF rating \in validRatings THEN rating ELSE Null

validateRiskLevel(riskLevel) == IF riskLevel \in validRiskLevels THEN riskLevel ELSE Null

KeepsItem(item) == item.t = "string" /\ Len(Trim(item.s)) > 0

\* mutant of sanitizeStringArray: the kept items are not trimmed
sanitizeStringArrayUntrimmed(arr, fallback) ==
    IF arr.t # "array" THEN Arr(<<Str(fallback)>>)
    ELSE LET kept == SelectSeq(arr.a, KeepsItem)
             capped == SubSeq(kept, 1, IF Len(kept) < 6 THEN Len(kept) ELSE 6)
         IN  IF Len(capped) > 0 THEN Arr(capped) ELSE Arr(<<Str(fallback)>>)

sanitizeStringArray(arr, fallback) ==
    IF arr.t # "array" THEN Arr(<<Str(fallback)>>)
    ELSE LET kept == SelectSeq(arr.a, KeepsItem)
             trimmed == [i \in 1..Len(kept) |-> Str(Trim(kept[i].s))]
             capped == SubSeq(trimmed, 1, IF Len(trimmed) < 6 THEN Len(trimmed) ELSE 6)
         IN  IF Len(capped) > 0 THEN Arr(capped) ELSE Arr(<<Str(fallback)>>)

\* (x || '').toString().trim() || fallback
sanitizeText(x, fallback) ==
    Or(Str(Trim(ToStr(Or(x, Str(<<>>))))), Str(fallback))

\* mutant of sanitizeScore: an absent score defaults to 0 before the clamp
sanitizeScoreNoDefault(rec) ==
    MathMax(Num(300), MathMin(Num(850), Or(rec.creditScore, Num(0))))

\* mutant of sanitizeScore: ?? in place of ||, a creditScore of 0 is kept
sanitizeScoreNullish(rec) ==
    MathMax(Num(300),
            MathMin(Num(850),
                    IF rec.creditScore \in {Undefined, Null} THEN Num(650)
                    ELSE rec.creditScore))

sanitizeScore(rec) == MathMax(Num(300), MathMin(Num(850), Or(rec.creditScore, Num(650))))

\* ToString / ToNumber of v is a TypeError: v, or an item of the list v, is an object
\* whose toString is not callable
NotConvertible(v) ==
    \/ v = ObjNoToString
    \/ v.t = "array" /\ \E i \in 1..Len(v.a) : v.a[i] = ObjNoToString

\* sanitizeCreditRecommendation raises: Math.min / Math.max (lines 76, 82, 83) or
\* .toString() (lines 79, 84) is applied to a value that cannot be converted
SanitizeRaises(rec) ==
    \/ NotConvertible(Or(rec.creditScore, Num(650)))
    \/ NotConvertible(Or(rec.recommendation, Str(<<>>)))
    \/ NotConvertible(Or(rec.maxCreditLimit, Num(10000)))
    \/ NotConvertible(Or(rec.interestRate, Num(15)))
    \/ NotConvertible(Or(rec.reasoning, Str(<<>>)))

sanitizeCreditRecommendation(rec, now) ==
    [k \in RecKeys |->
        CASE k = "score" -> sanitizeScore(rec)
          [] k = "rating" -> Or(validateRating(rec.rating), Str(<<"Fair">>))
          [] k = "riskLevel" -> Or(validateRiskLevel(rec.riskLevel), Str(<<"Medium">>))
          [] k = "recommendation" ->
                sanitizeText(rec.recommendation, <<"No recommendation available">>)
          [] k = "keyFactors" ->
                sanitizeStringArray(rec.keyFactors, <<"Positive factor identified">>)
          [] k = "improvementSuggestions" ->
                sanitizeStringArray(rec.improvementSuggestions, <<"Consider improvement">>)
          [] k = "maxCreditLimit" -> MathMax(Num(0), Or(rec.maxCreditLimit, Num(10000)))
          [] k = "interestRate" ->
                MathMax(Num(0), MathMin(Num(50), Or(rec.interestRate, Num(15))))
          [] k = "reasoning" -> sanitizeText(rec.reasoning, <<"Analysis completed">>)
          [] k = "analysisModel" -> Or(rec.analysisModel, Str(<<"deepseek-r1:8b">>))
          [] k = "generatedAt" -> Or(rec.generatedAt, IsoString(now))
          [] OTHER -> Undefined]

\* ------------------------------------------------------------- arithmetic
\* x + y on finite numbers
NumAdd(x, y) == Frac(x.n * y.d + y.n * x.d, x.d * y.d)

\* sum / k, where sum adds up k terms: the only division by zero is 0 / 0 = NaN
NumDiv(x, k) == IF k = 0 THEN NaN ELSE Frac(x.n, x.d * k)

\* x < y and x >= y on numbers; every comparison with NaN is false
JsLT(x, y) == x.t = "number" /\ y.t = "number" /\ NumLT(x, y)

JsGE(x, y) == x.t = "number" /\ y.t = "number" /\ NumLE(y, x)

JsGT(x, y) == JsLT(y, x)

\* --------------------------------------------------------- document records
FinFields ==
    <<"accountBalance", "monthlyIncome", "monthlyExpenses", "annualRevenue",
      "netProfit", "totalAssets", "totalLiabilities", "cashFlow">>

FinFieldSet == {FinFields[i] : i \in 1..Len(FinFields)}

NoMetrics == [f \in FinFieldSet |-> Undefined]

\* the financialMetrics property: missing, null, or an object of numeric fields
FmMissing == [kind |-> "undefined", m |-> NoMetrics]

FmNull == [kind |-> "null", m |-> NoMetrics]

FmObject(m) == [kind |-> "object", m |-> m]

Metrics(income, revenue, assets, balance) ==
    [f \in FinFieldSet |->
        CASE f = "monthlyIncome" -> income
          [] f = "annualRevenue" -> revenue
          [] f = "totalAssets" -> assets
          [] f = "accountBalance" -> balance
          [] OTHER -> Undefined]

FactKeys == FinFieldSet \cup {"documentType", "riskFactors", "confidence"}

EmptyFact == [k \in FactKeys |-> Undefined]

\* a CombinedDocumentRecord (the extractedData of a processing result)
DocRecord(documentType, keyInformation, riskFactors, financialMetrics, confidence) ==
    [documentType |-> documentType, keyInformation |-> keyInformation,
     riskFactors |-> riskFactors, financialMetrics |-> financialMetrics,
     confidence |-> confidence]

\* one element of processDocuments' result list
ProcessingResult(extractedData, imageCount, processingTime, error) ==
    [extractedData |-> extractedData, imageCount |-> imageCount,
     processingTime |-> processingTime, error |-> error]

\* the record processDocuments pushes when a document's processing raised
\* mutant of ErrorResult: the failed document keeps the type 'unknown'
ErrorResultUntyped(message) ==
    ProcessingResult(
        DocRecord(Str(<<"unknown">>), EmptyFact,
                  Arr(<<Str(<<"Document", " ", "processing", " ", "failed">>)>>),
                  FmMissing, Num(0)),
        0, 0, Str(message))

ErrorResult(message) ==
    ProcessingResult(
        DocRecord(Str(<<"error">>), EmptyFact,
                  Arr(<<Str(<<"Document", " ", "processing", " ", "failed">>)>>),
                  FmMissing, Num(0)),
        0, 0, Str(message))

\* --------------------------------------------------------------- fact combiner
\* data[field] && typeof data[field] === 'number'
IsMetric(v) == Truthy(v) /\ v.t = "number"

extractFinancialMetrics(data) ==
    LET metrics == [f \in FinFieldSet |-> IF IsMetric(data[f]) THEN data[f] ELSE Undefined]
    IN  IF metrics = NoMetrics THEN FmNull ELSE FmObject(metrics)

\* the fields combineFinancialMetrics averages
CombinedFields ==
    {"accountBalance", "monthlyIncome", "monthlyExpenses", "annualRevenue", "netProfit"}

RECURSIVE SumValues(_)
SumValues(values) ==
    IF values = <<>> THEN Num(0)
    ELSE NumAdd(SumValues(SubSeq(values, 1, Len(values) - 1)), values[Len(values)])

IsDefined(v) == v # Undefined

\* metricsArray.map(m => m[field]).filter(v => v !== undefined)
FieldValuesOf(metricsArray, field) ==
    SelectSeq([i \in 1..Len(metricsArray) |-> metricsArray[i][field]], IsDefined)

combineFinancialMetrics(metricsArray) ==
    [f \in FinFieldSet |->
        LET values == FieldValuesOf(metricsArray, f)
        IN  IF f \in CombinedFields /\ Len(values) > 0
            THEN NumDiv(SumValues(values), Len(values))
            ELSE Undefined]

\* combined.riskFactors.push(...data.riskFactors) for every image that has a list
RECURSIVE MergedRiskFactors(_)
MergedRiskFactors(dataArray) ==
    IF dataArray = <<>> THEN <<>>
    ELSE (IF Truthy(Head(dataArray).riskFactors) THEN Head(dataArray).riskFactors.a ELSE <<>>)
         \o MergedRiskFactors(Tail(dataArray))

Contains(seq, x) == \E i \in 1..Len(seq) : seq[i] = x

\* mutant of Dedupe: a duplicate replaces the earlier occurrence
RECURSIVE DedupeKeepLast(_)
DedupeKeepLast(seq) ==
    IF seq = <<>> THEN <<>>
    ELSE IF Contains(Tail(seq), Head(seq)) THEN DedupeKeepLast(Tail(seq))
    ELSE <<Head(seq)>> \o DedupeKeepLast(Tail(seq))

\* [...new Set(seq)]: a Set keeps its members in insertion order
RECURSIVE Dedupe(_)
Dedupe(seq) ==
    IF seq = <<>> THEN <<>>
    ELSE LET before == Dedupe(SubSeq(seq, 1, Len(seq) - 1))
         IN  IF Contains(before, seq[Len(seq)]) THEN before
             ELSE Append(before, seq[Len(seq)])

\* Object.assign(target, data): data's own keys overwrite the target's
Assign(target, data) ==
    [k \in FactKeys |-> IF data[k] # Undefined THEN data[k] ELSE target[k]]

RECURSIVE MergedKeyInformation(_)
MergedKeyInformation(dataArray) ==
    IF dataArray = <<>> THEN EmptyFact
    ELSE Assign(MergedKeyInformation(SubSeq(dataArray, 1, Len(dataArray) - 1)),
                dataArray[Len(dataArray)])

IsObject(fm) == fm.kind = "object"

combineExtractedData(dataArray, documentType) ==
    IF Len(dataArray) = 0
    THEN DocRecord(documentType, EmptyFact, Arr(<<Str(<<"No data extracted">>)>>),
                   FmMissing, Num(0))
    ELSE IF Len(dataArray) = 1
    THEN DocRecord(Or(dataArray[1].documentType, documentType), dataArray[1],
                   Or(dataArray[1].riskFactors, Arr(<<>>)),
                   extractFinancialMetrics(dataArray[1]), Undefined)
    ELSE LET extracted ==
                SelectSeq([i \in 1..Len(dataArray) |-> extractFinancialMetrics(dataArray[i])],
                          IsObject)
             metrics == [i \in 1..Len(extracted) |-> extracted[i].m]
         IN  DocRecord(documentType, MergedKeyInformation(dataArray),
                       Arr(Dedupe(MergedRiskFactors(dataArray))),
                       IF Len(metrics) > 0 THEN FmObject(combineFinancialMetrics(metrics))
                           ELSE FmObject(NoMetrics),
                       Undefined)

\* ------------------------------------------------------------ fallback scorer
\* String.prototype.toLowerCase, atom by atom
Lower(c) ==
    CASE c = "Excellent" -> "excellent"
      [] c = "Good" -> "good"
      [] c = "Fair" -> "fair"
      [] c = "Poor" -> "poor"
      [] c = "Very Poor" -> "very poor"
      [] c = "Income" -> "income"
      [] c = "Debt" -> "debt"
      [] c = "Balance" -> "balance"
      [] c = "Low" -> "low"
      [] c = "High" -> "high"
      [] c = "Document" -> "document"
      [] c = "Bank" -> "bank"
      [] OTHER -> c

\* s.toLowerCase().includes(word), word one atom
IncludesWord(s, word) == \E i \in 1..Len(s) : Lower(s[i]) = word

\* r.extractedData.riskFactors?.length || 0
RiskFactorCount(r) ==
    IF r.extractedData.riskFactors.t = "array" THEN Len(r.extractedData.riskFactors.a) ELSE 0

RECURSIVE SumRiskFactors(_)
SumRiskFactors(results) ==
    IF results = <<>> THEN 0
    ELSE RiskFactorCount(Head(results)) + SumRiskFactors(Tail(results))

HasMetrics(r) == r.extractedData.financialMetrics.kind = "object"

\* data.monthlyIncome || data.annualRevenue || 0
IncomeOf(data) == Or(Or(data.monthlyIncome, data.annualRevenue), Num(0))

\* data.totalAssets || data.accountBalance || 0
AssetsOf(data) == Or(Or(data.totalAssets, data.accountBalance), Num(0))

RECURSIVE SumIncome(_)
SumIncome(financialData) ==
    IF financialData = <<>> THEN Num(0)
    ELSE NumAdd(SumIncome(SubSeq(financialData, 1, Len(financialData) - 1)),
                IncomeOf(financialData[Len(financialData)]))

RECURSIVE SumAssets(_)
SumAssets(financialData) ==
    IF financialData = <<>> THEN Num(0)
    ELSE NumAdd(SumAssets(SubSeq(financialData, 1, Len(financialData) - 1)),
                AssetsOf(financialData[Len(financialData)]))

\* the financialMetrics objects of the results that carry one
FinancialData(results) ==
    LET with == SelectSeq(results, HasMetrics)
    IN  [i \in 1..Len(with) |-> with[i].extractedData.financialMetrics.m]

\* mutant of FallbackTier: the thresholds compared with >= instead of >
FallbackTierInclusive(results) ==
    LET financialData == FinancialData(results)
        avgIncome == NumDiv(SumIncome(financialData), Len(financialData))
        avgAssets == NumDiv(SumAssets(financialData), Len(financialData))
    IN  IF Len(financialData) > 0
        THEN IF JsGE(avgIncome, Num(30000)) /\ JsGE(avgAssets, Num(75000))
             THEN <<100, "Low">>
             ELSE IF JsGE(avgIncome, Num(15000)) /\ JsGE(avgAssets, Num(25000))
                  THEN <<50, "Medium">>
                  ELSE <<-50, "High">>
        ELSE <<0, "Medium">>

\* the tier of lines 123-136: <<score adjustment, riskLevel>>
FallbackTier(results) ==
    LET financialData == FinancialData(results)
        avgIncome == NumDiv(SumIncome(financialData), Len(financialData))
        avgAssets == NumDiv(SumAssets(financialData), Len(financialData))
    IN  IF Len(financialData) > 0
        THEN IF JsGT(avgIncome, Num(30000)) /\ JsGT(avgAssets, Num(75000))
             THEN <<100, "Low">>
             ELSE IF JsGT(avgIncome, Num(15000)) /\ JsGT(avgAssets, Num(25000))
                  THEN <<50, "Medium">>
                  ELSE <<-50, "High">>
        ELSE <<0, "Medium">>

getScoreRating(score) ==
    IF score >= 800 THEN "Excellent"
    ELSE IF score >= 740 THEN "Good"
    ELSE IF score >= 670 THEN "Fair"
    ELSE IF score >= 580 THEN "Poor"
    ELSE "Very Poor"

\* mutant of calculateCreditLimit: the limits of the Good and Fair bands swapped
calculateCreditLimitSwapped(score) ==
    IF score >= 800 THEN 50000
    ELSE IF score >= 740 THEN 15000
    ELSE IF score >= 670 THEN 25000
    ELSE IF score >= 580 THEN 8000
    ELSE 3000

calculateCreditLimit(score) ==
    IF score >= 800 THEN 50000
    ELSE IF score >= 740 THEN 25000
    ELSE IF score >= 670 THEN 15000
    ELSE IF score >= 580 THEN 8000
    ELSE 3000

\* the rate in tenths of a percent: 6.5, 9.2, 13.5, 18.9, 24.9
calculateInterestRate(score) ==
    IF score >= 800 THEN Frac(65, 10)
    ELSE IF score >= 740 THEN Frac(92, 10)
    ELSE IF score >= 670 THEN Frac(135, 10)
    ELSE IF score >= 580 THEN Frac(189, 10)
    ELSE Frac(249, 10)

HasDocType(results, type) ==
    \E i \in 1..Len(results) : results[i].extractedData.documentType = Str(<<type>>)

generateFallbackRecommendationText(score, rating, results) ==
    LET hasFinancialDocs == HasDocType(results, "financial")
        hasBankDocs == HasDocType(results, "bank_statement")
        hasLegalDocs == HasDocType(results, "legal")
    IN  <<"Based on rule-based analysis of ">> \o NatToStr(Len(results))
          \o <<" document(s) extracted using qwen2.5vl:7b, the applicant shows a ",
               Lower(rating), " credit profile with a score of ">>
          \o NatToStr(score) \o <<". ">>
          \o (IF hasFinancialDocs /\ hasBankDocs
                THEN <<"The comprehensive financial documentation provides strong evidence of financial stability and creditworthiness. ">>
              ELSE IF hasFinancialDocs \/ hasBankDocs THEN <<"The financial documentation provides adequate evidence of creditworthiness, though additional documentation could strengthen the application. ">>
              ELSE <<>>)
          \o (IF hasLegalDocs THEN <<"Legal documentation appears to be in order with no significant compliance issues identified. ">> ELSE <<>>)
          \o (IF score >= 740 THEN <<"This applicant is recommended for approval with favorable terms.">>
              ELSE IF score >= 670 THEN <<"This applicant is recommended for approval with standard terms and monitoring.">>
              ELSE <<"This applicant may require additional scrutiny or enhanced terms to mitigate risk.">>)

generateFallbackKeyFactors(results) ==
    LET factors ==
            (IF HasDocType(results, "bank_statement")
                THEN <<Str(<<"Bank statement analysis completed with qwen2.5vl:7b">>)>>
                ELSE <<>>)
            \o (IF HasDocType(results, "financial")
                THEN <<Str(<<"Financial statement review conducted">>)>> ELSE <<>>)
            \o (IF HasDocType(results, "legal")
                THEN <<Str(<<"Legal documentation verified">>)>> ELSE <<>>)
            \o <<Str(<<"AI-powered document extraction using computer vision">>),
                 Str(<<"Multi-document cross-validation performed">>),
                 Str(<<"Automated risk assessment completed">>)>>
    IN  Arr(SubSeq(factors, 1, IF Len(factors) < 6 THEN Len(factors) ELSE 6))

\* results.flatMap(r => r.extractedData.riskFactors || [])
RECURSIVE AllRiskFactors(_)
AllRiskFactors(results) ==
    IF results = <<>> THEN <<>>
    ELSE (IF Head(results).extractedData.riskFactors.t = "array"
            THEN Head(results).extractedData.riskFactors.a
            ELSE IF Truthy(Head(results).extractedData.riskFactors)
            THEN <<Head(results).extractedData.riskFactors>>
            ELSE <<>>)
         \o AllRiskFactors(Tail(results))

generateFallbackImprovementSuggestions(results) ==
    LET riskFactors == AllRiskFactors(results)
        Mentions(word) == \E i \in 1..Len(riskFactors) : IncludesWord(riskFactors[i].s, word)
        suggestions ==
            (IF Mentions("income")
                THEN <<Str(<<"Consider providing additional income documentation">>)>>
                ELSE <<>>)
            \o (IF Mentions("debt")
                THEN <<Str(<<"Work on reducing outstanding debt obligations">>)>>
                ELSE <<>>)
            \o (IF Mentions("balance")
                THEN <<Str(<<"Maintain higher account balances consistently">>)>>
                ELSE <<>>)
        final ==
            IF Len(suggestions) = 0
            THEN <<Str(<<"Continue maintaining good financial practices">>),
                   Str(<<"Consider diversifying income sources">>),
                   Str(<<"Provide additional supporting documentation">>)>>
            ELSE suggestions
    IN  Arr(SubSeq(final, 1, IF Len(final) < 4 THEN Len(final) ELSE 4))

ClampScore(baseScore) ==
    IF baseScore > 850 THEN 850 ELSE IF baseScore < 300 THEN 300 ELSE baseScore

generateFallbackRecommendation(results) ==
    LET tier == FallbackTier(results)
        baseScore == 650 + tier[1] - SumRiskFactors(results) * 15
        score == ClampScore(baseScore)
        rating == getScoreRating(score)
    IN  [k \in RecKeys |->
            CASE k = "score" -> Num(score)
              [] k = "rating" -> Str(<<rating>>)
              [] k = "riskLevel" -> Str(<<tier[2]>>)
              [] k = "recommendation" ->
                    Str(generateFallbackRecommendationText(score, rating, results))
              [] k = "keyFactors" -> generateFallbackKeyFactors(results)
              [] k = "improvementSuggestions" ->
                    generateFallbackImprovementSuggestions(results)
              [] k = "maxCreditLimit" -> Num(calculateCreditLimit(score))
              [] k = "interestRate" -> calculateInterestRate(score)
              [] k = "reasoning" ->
                    Str(<<"Fallback rule-based analysis used due to AI model unavailability">>)
              [] k = "analysisModel" -> Str(<<"fallback-rules">>)
              [] OTHER -> Undefined]

calculateFallbackRisk(results) ==
    LET totalRiskFactors == SumRiskFactors(results)
        avgRiskFactors == NumDiv(Num(totalRiskFactors), Len(results))
    IN  IF JsLT(avgRiskFactors, Frac(3, 2)) THEN "Low"
        ELSE IF JsLT(avgRiskFactors, Frac(5, 2)) THEN "Medium"
        ELSE "High"

HasError(r) == Truthy(r.error)

\* mutant of calculateFallbackConfidence: the bonus for documents is not capped
calculateFallbackConfidenceUncapped(results) ==
    LET errorCount == Len(SelectSeq(results, HasError))
        confidence == 75 + Len(results) * 2 - errorCount * 15
    IN  IF confidence > 95 THEN 95 ELSE IF confidence < 50 THEN 50 ELSE confidence

calculateFallbackConfidence(results) ==
    LET more == IF Len(results) * 2 < 10 THEN Len(results) * 2 ELSE 10
        errorCount == Len(SelectSeq(results, HasError))
        confidence == 75 + more - errorCount * 15
    IN  IF confidence > 95 THEN 95 ELSE IF confidence < 50 THEN 50 ELSE confidence

\* ------------------------------------------------------ analysis orchestrator
\* Math.round
MathRound(x) ==
    IF x.t # "number" THEN NaN ELSE Num((2 * x.n + x.d) \div (2 * x.d))

\* data.confidence || 80, applied at line 12 and again at line 21
ConfidenceOf(r) == Or(Or(r.extractedData.confidence, Num(80)), Num(80))

RECURSIVE SumConfidence(_)
SumConfidence(results) ==
    IF results = <<>> THEN Num(0)
    ELSE NumAdd(SumConfidence(SubSeq(results, 1, Len(results) - 1)),
                ConfidenceOf(results[Len(results)]))

RECURSIVE SumProcessingTime(_)
SumProcessingTime(results) ==
    IF results = <<>> THEN 0
    ELSE Head(results).processingTime + SumProcessingTime(Tail(results))

RECURSIVE SumImages(_)
SumImages(results) ==
    IF results = <<>> THEN 0
    ELSE Head(results).imageCount + SumImages(Tail(results))

NoSummary ==
    [present |-> FALSE, totalDocuments |-> 0, documentTypes |-> <<>>,
     averageConfidence |-> Undefined, totalProcessingTime |-> 0, totalImages |-> 0]

\* lines 17-25
BuildSummary(results) ==
    [present |-> TRUE,
     totalDocuments |-> Len(results),
     documentTypes |->
        Dedupe([i \in 1..Len(results) |-> results[i].extractedData.documentType]),
     averageConfidence |-> MathRound(NumDiv(SumConfidence(results), Len(results))),
     totalProcessingTime |-> SumProcessingTime(results),
     totalImages |-> SumImages(results)]

\* the reasoner call ended with an exception (generateResponse, lines 40-43)
Raised(message) ==
    [kind |-> "error", message |-> <<"Ollama API request failed: ", message>>,
     object |-> EmptyObject]

\* the reasoner answered: response.data.response is missing, is text holding no JSON
\* object, or is text from which extractJSON recovers the object
Replied(kind, object) == [kind |-> kind, message |-> <<>>, object |-> object]

NoOutcome == [kind |-> "none", message |-> <<>>, object |-> EmptyObject]

\* extractJSON(response), on the three kinds of response
extractJSON(reply) == IF reply.kind = "json" THEN [found |-> TRUE, object |-> reply.object]
                      ELSE [found |-> FALSE, object |-> EmptyObject]

\* the object lines 335-350 return when no JSON was extracted
ParseFailureRecommendation ==
    [k \in RecKeys |->
        CASE k = "creditScore" -> Num(650)
          [] k = "rating" -> Str(<<"Fair">>)
          [] k = "riskLevel" -> Str(<<"Medium">>)
          [] k = "recommendation" ->
                Str(<<"Unable to generate detailed recommendation due to parsing error. Manual review recommended.">>)
          [] k = "keyFactors" ->
                Arr(<<Str(<<"Document analysis completed">>),
                      Str(<<"Multiple documents processed">>)>>)
          [] k = "improvementSuggestions" ->
                Arr(<<Str(<<"Provide additional documentation">>),
                      Str(<<"Clarify financial statements">>)>>)
          [] k = "maxCreditLimit" -> Num(10000)
          [] k = "interestRate" -> Num(15)
          [] k = "reasoning" ->
                Str(<<"Fallback analysis due to model response parsing failure">>)
          [] k = "confidence" -> Num(60)
          [] k = "analysisModel" -> Str(<<"deepseek-r1:8b">>)
          [] OTHER -> Undefined]

\* generateCreditRecommendation once generateResponse has settled (lines 319-354):
\* what it returns, or the error it rethrows
generateCreditRecommendation(settled, now) ==
    IF settled.kind = "error"
    THEN [threw |-> TRUE, message |-> settled.message, value |-> EmptyObject]
    ELSE IF extractJSON(settled).found
    THEN [threw |-> FALSE, message |-> <<>>,
          value |-> [extractJSON(settled).object EXCEPT
                        !.analysisModel = Str(<<"deepseek-r1:8b">>),
                        !.generatedAt = IsoString(now)]]
    ELSE IF settled.kind = "missing"
    THEN [threw |-> TRUE,
          message |-> <<"Cannot read properties of undefined (reading 'substring')">>,
          value |-> EmptyObject]
    ELSE [threw |-> FALSE, message |-> <<>>, value |-> ParseFailureRecommendation]

NoModelInfo ==
    [extractionModel |-> Undefined, analysisModel |-> Undefined,
     totalProcessingTime |-> Undefined, error |-> Undefined]

\* analyzeCredit has not returned (raised = FALSE) or has rejected (raised = TRUE)
NoResult(raised) ==
    [raised |-> raised, recommendation |-> EmptyObject, overallRisk |-> Undefined,
     confidence |-> Undefined, documentSummary |-> NoSummary, error |-> Undefined,
     modelInfo |-> NoModelInfo]

\* rf.toLowerCase() (lines 242-248) is a TypeError for a risk factor that is no string
FallbackRaises(results) ==
    \E i \in 1..Len(AllRiskFactors(results)) : AllRiskFactors(results)[i].t # "string"

\* lines 35-54: the result built from the reasoner's recommendation
SuccessResult(results, creditRecommendation, documentSummary, now) ==
    LET sanitizedRecommendation == sanitizeCreditRecommendation(creditRecommendation, now)
    IN  [raised |-> FALSE,
         recommendation |-> sanitizedRecommendation,
         overallRisk |->
            Or(sanitizedRecommendation.riskLevel, Str(<<calculateFallbackRisk(results)>>)),
         confidence |->
            Or(sanitizedRecommendation.confidence, Num(calculateFallbackConfidence(results))),
         documentSummary |-> documentSummary,
         error |-> Undefined,
         modelInfo |->
            [extractionModel |-> Str(<<"qwen2.5vl:7b">>),
             analysisModel |-> Str(<<"deepseek-r1:8b">>),
             totalProcessingTime |-> Num(documentSummary.totalProcessingTime),
             error |-> Undefined]]

\* mutant of FallbackResult: the catch block reports the reasoning model and no error
FallbackResultUnmarked(results, message) ==
    [raised |-> FALSE,
     recommendation |-> generateFallbackRecommendation(results),
     overallRisk |-> Str(<<calculateFallbackRisk(results)>>),
     confidence |-> Num(calculateFallbackConfidence(results)),
     documentSummary |-> NoSummary,
     error |-> Str(<<"AI analysis failed, using fallback rules">>),
     modelInfo |->
        [extractionModel |-> Str(<<"qwen2.5vl:7b">>),
         analysisModel |-> Str(<<"deepseek-r1:8b">>),
         totalProcessingTime |-> Undefined,
         error |-> Undefined]]

\* lines 55-70: the result of the catch block
FallbackResult(results, message) ==
    [raised |-> FALSE,
     recommendation |-> generateFallbackRecommendation(results),
     overallRisk |-> Str(<<calculateFallbackRisk(results)>>),
     confidence |-> Num(calculateFallbackConfidence(results)),
     documentSummary |-> NoSummary,
     error |-> Str(<<"AI analysis failed, using fallback rules">>),
     modelInfo |->
        [extractionModel |-> Str(<<"qwen2.5vl:7b">>),
         analysisModel |-> Str(<<"fallback-rules">>),
         totalProcessingTime |-> Undefined,
         error |-> Str(message)]]

\* ------------------------------------------------------------ model text
\* The text a model returns is a sequence of tokens [c |-> class, v |-> characters]:
\* the punctuation marks "{" "}" "[" "]" "," ":" ".", the whitespace characters " " and
\* "\n", the fence ``` (class "fence"), a word (a run of \w characters: a number, true, an
\* identifier, a word of prose) and a string literal (a word or words in double quotes).
Tok(c) == [c |-> c, v |-> <<>>]

Word(w) == [c |-> "word", v |-> <<w>>]

Quoted(w) == [c |-> "string", v |-> <<w>>]

LBrace == Tok("{")

RBrace == Tok("}")

Comma == Tok(",")

Colon == Tok(":")

Space == Tok(" ")

Newline == Tok("\n")

Fence == Tok("fence")

\* \s
IsSpace(t) == t.c \in {" ", "\n"}

\* the characters of a token that is no string literal
TokenText(t) == IF t.c = "word" THEN t.v ELSE <<t.c>>

\* the first position from i on whose token has one of the classes, or 0
RECURSIVE FirstOf(_, _, _)
FirstOf(ts, i, classes) ==
    IF i > Len(ts) THEN 0
    ELSE IF ts[i].c \in classes THEN i
    ELSE FirstOf(ts, i + 1, classes)

\* the first position from i on that holds no whitespace, Len(ts) + 1 if there is none
RECURSIVE SkipSpace(_, _)
SkipSpace(ts, i) ==
    IF i > Len(ts) THEN Len(ts) + 1
    ELSE IF IsSpace(ts[i]) THEN SkipSpace(ts, i + 1)
    ELSE i

\* String.prototype.trim
RECURSIVE TrimTokens(_)
TrimTokens(ts) ==
    IF ts = <<>> THEN <<>>
    ELSE IF IsSpace(ts[1]) THEN TrimTokens(Tail(ts))
    ELSE IF IsSpace(ts[Len(ts)]) THEN TrimTokens(SubSeq(ts, 1, Len(ts) - 1))
    ELSE ts

\* ---------------------------------------------------------------- JSON.parse
\* A parsed value is [t |-> type, v |-> characters, m |-> members in insertion order],
\* a member [k |-> key, x |-> value] (k is empty for the items of an array).
Parsed(t, v, m) == [t |-> t, v |-> v, m |-> m]

ParsedNull == Parsed("null", <<>>, <<>>)

NumberWords == {"0", "1", "2", "42"}

LiteralWords == {"true", "false", "null"}

ParseError == [ok |-> FALSE, x |-> ParsedNull, next |-> 0]

\* obj[k] = x: a repeated key keeps its first position and takes the last value
PutMember(m, k, x) ==
    IF \E i \in 1..Len(m) : m[i].k = k
    THEN [i \in 1..Len(m) |-> IF m[i].k = k THEN [k |-> k, x |-> x] ELSE m[i]]
    ELSE Append(m, [k |-> k, x |-> x])

RECURSIVE ParseValue(_, _), ParseMembers(_, _, _), ParseItems(_, _, _)
\* a JSON value starting at the first non-blank token from i on
ParseValue(ts, i) ==
    LET j == SkipSpace(ts, i)
    IN  IF j > Len(ts) THEN ParseError
        ELSE CASE ts[j].c = "string" ->
                    [ok |-> TRUE, x |-> Parsed("string", ts[j].v, <<>>), next |-> j + 1]
               [] ts[j].c = "word" /\ ts[j].v[1] \in NumberWords ->
                    [ok |-> TRUE, x |-> Parsed("number", ts[j].v, <<>>), next |-> j + 1]
               [] ts[j].c = "word" /\ ts[j].v[1] \in LiteralWords ->
                    [ok |-> TRUE, x |-> Parsed(ts[j].v[1], <<>>, <<>>), next |-> j + 1]
               [] ts[j].c = "{" ->
                    IF SkipSpace(ts, j + 1) <= Len(ts) /\ ts[SkipSpace(ts, j + 1)].c = "}"
                    THEN [ok |-> TRUE, x |-> Parsed("object", <<>>, <<>>),
                          next |-> SkipSpace(ts, j + 1) + 1]
                    ELSE ParseMembers(ts, j + 1, <<>>)
               [] ts[j].c = "[" ->
                    IF SkipSpace(ts, j + 1) <= Len(ts) /\ ts[SkipSpace(ts, j + 1)].c = "]"
                    THEN [ok |-> TRUE, x |-> Parsed("array", <<>>, <<>>),
                          next |-> SkipSpace(ts, j + 1) + 1]
                    ELSE ParseItems(ts, j + 1, <<>>)
               [] OTHER -> ParseError

\* "key": value pairs up to the closing brace, m the members read so far
ParseMembers(ts, i, m) ==
    LET k == SkipSpace(ts, i)
        c == SkipSpace(ts, k + 1)
    IN  IF k > Len(ts) \/ c > Len(ts) THEN ParseError
        ELSE IF ts[k].c # "string" \/ ts[c].c # ":" THEN ParseError
        ELSE LET value == ParseValue(ts, c + 1)
                 e == SkipSpace(ts, value.next)
             IN  IF ~value.ok \/ e > Len(ts) THEN ParseError
                 ELSE IF ts[e].c = ","
                 THEN ParseMembers(ts, e + 1, PutMember(m, ts[k].v, value.x))
                 ELSE IF ts[e].c = "}"
                 THEN [ok |-> TRUE,
                       x |-> Parsed("object", <<>>, PutMember(m, ts[k].v, value.x)),
                       next |-> e + 1]
                 ELSE ParseError

\* the items of an array up to the closing bracket
ParseItems(ts, i, m) ==
    LET value == ParseValue(ts, i)
        e == SkipSpace(ts, value.next)
    IN  IF ~value.ok \/ e > Len(ts) THEN ParseError
        ELSE IF ts[e].c = ","
        THEN ParseItems(ts, e + 1, Append(m, [k |-> <<>>, x |-> value.x]))
        ELSE IF ts[e].c = "]"
        THEN [ok |-> TRUE,
              x |-> Parsed("array", <<>>, Append(m, [k |-> <<>>, x |-> value.x])),
              next |-> e + 1]
        ELSE ParseError

\* JSON.parse(ts): the value, or ok = FALSE for a SyntaxError
JSONParse(ts) ==
    LET value == ParseValue(ts, 1)
    IN  IF value.ok /\ SkipSpace(ts, value.next) > Len(ts) THEN value ELSE ParseError

\* ---------------------------------------------------------------- extractJSON
\* a try { JSON.parse } catch: the value, or the error swallowed by the catch
Completion(kind, x) == [kind |-> kind, x |-> x]

\* lines 84-91, 98-102, 130-134, 152-157: JSON.parse inside try / catch
TryParse(ts) ==
    IF JSONParse(ts).ok THEN Completion("value", JSONParse(ts).x)
    ELSE Completion("caught", ParsedNull)

\* text.match(/\{[\s\S]*?\}/g) from position p on: each match runs from the next "{"
\* to the first "}" behind it
RECURSIVE BraceMatches(_, _)
BraceMatches(ts, p) ==
    LET i == FirstOf(ts, p, {"{"})
        j == IF i = 0 THEN 0 ELSE FirstOf(ts, i + 1, {"}"})
    IN  IF i = 0 \/ j = 0 THEN <<>>
        ELSE <<SubSeq(ts, i, j)>> \o BraceMatches(ts, j + 1)

\* lines 83-92: the first match that parses (a match parses to an object only)
RECURSIVE FirstParsed(_, _)
FirstParsed(matches, i) ==
    IF i > Len(matches) THEN Completion("caught", ParsedNull)
    ELSE IF TryParse(matches[i]).kind = "caught" THEN FirstParsed(matches, i + 1)
    ELSE TryParse(matches[i])

\* lines 81-93
Strategy1(ts) == FirstParsed(BraceMatches(ts, 1), 1)

IsJsonTag(t) == t.c = "word" /\ t.v[1] \in {"json", "JSON"}

\* the "}" from r on that only whitespace separates from a fence, or 0
RECURSIVE ClosingBrace(_, _)
ClosingBrace(ts, r) ==
    LET j == FirstOf(ts, r, {"}"})
    IN  IF j = 0 THEN 0
        ELSE IF SkipSpace(ts, j + 1) <= Len(ts) /\ ts[SkipSpace(ts, j + 1)].c = "fence"
        THEN j
        ELSE ClosingBrace(ts, j + 1)

\* /```(?:json)?\s*(\{[\s\S]*?\})\s*```/i tried at the fence at position f:
\* the captured group, or <<>>
CodeBlockAt(ts, f) ==
    LET a == IF f + 1 <= Len(ts) /\ IsJsonTag(ts[f + 1]) THEN f + 2 ELSE f + 1
        b == SkipSpace(ts, a)
        r == IF b <= Len(ts) /\ ts[b].c = "{" THEN ClosingBrace(ts, b + 1) ELSE 0
    IN  IF r = 0 THEN <<>> ELSE SubSeq(ts, b, r)

\* text.match of line 96: the group of the leftmost match from position p on, or <<>>
RECURSIVE CodeBlockMatch(_, _)
CodeBlockMatch(ts, p) ==
    LET f == FirstOf(ts, p, {"fence"})
    IN  IF f = 0 THEN <<>>
        ELSE IF CodeBlockAt(ts, f) # <<>> THEN CodeBlockAt(ts, f)
        ELSE CodeBlockMatch(ts, f + 1)

\* lines 96-103
Strategy2(ts) ==
    IF CodeBlockMatch(ts, 1) = <<>> THEN Completion("caught", ParsedNull)
    ELSE TryParse(CodeBlockMatch(ts, 1))

\* text.split('\n')
RECURSIVE SplitLines(_)
SplitLines(ts) ==
    LET n == FirstOf(ts, 1, {"\n"})
    IN  IF n = 0 THEN <<ts>>
        ELSE <<SubSeq(ts, 1, n - 1)>> \o SplitLines(SubSeq(ts, n + 1, Len(ts)))

\* lines.join('\n')
RECURSIVE JoinLines(_)
JoinLines(lines) ==
    IF Len(lines) = 1 THEN lines[1]
    ELSE lines[1] \o <<Newline>> \o JoinLines(Tail(lines))

\* lines 117-120: the brace count behind a line
RECURSIVE CountBraces(_, _)
CountBraces(line, braceCount) ==
    IF line = <<>> THEN braceCount
    ELSE CountBraces(Tail(line),
                     CASE line[1].c = "{" -> braceCount + 1
                       [] line[1].c = "}" -> braceCount - 1
                       [] OTHER -> braceCount)

\* lines 111-126: the loop from line i on; jsonStart and jsonEnd are 0 for the code's -1
RECURSIVE ScanLines(_, _, _, _)
ScanLines(lines, i, jsonStart, braceCount) ==
    IF i > Len(lines) THEN [jsonStart |-> jsonStart, jsonEnd |-> 0]
    ELSE LET line == TrimTokens(lines[i])
         IN  IF line # <<>> /\ line[1].c = "{" /\ jsonStart = 0
             THEN ScanLines(lines, i + 1, i, 1)
             ELSE IF jsonStart # 0
             THEN IF CountBraces(line, braceCount) = 0
                  THEN [jsonStart |-> jsonStart, jsonEnd |-> i]
                  ELSE ScanLines(lines, i + 1, jsonStart, CountBraces(line, braceCount))
             ELSE ScanLines(lines, i + 1, jsonStart, braceCount)

\* lines 106-135
Strategy3(ts) ==
    LET lines == SplitLines(ts)
        found == ScanLines(lines, 1, 0, 0)
    IN  IF found.jsonStart # 0 /\ found.jsonEnd # 0
        THEN TryParse(JoinLines(SubSeq(lines, found.jsonStart, found.jsonEnd)))
        ELSE Completion("caught", ParsedNull)

\* .replace(/```json/gi, '')
RECURSIVE RemoveJsonFences(_)
RemoveJsonFences(ts) ==
    IF ts = <<>> THEN <<>>
    ELSE IF Len(ts) >= 2 /\ ts[1].c = "fence" /\ IsJsonTag(ts[2])
    THEN RemoveJsonFences(SubSeq(ts, 3, Len(ts)))
    ELSE <<ts[1]>> \o RemoveJsonFences(Tail(ts))

\* .replace(/```/g, '')
RemoveFences(ts) == SelectSeq(ts, LAMBDA t : t.c # "fence")

\* ^ with the m flag: the start of the text or of a line
IsLineStart(ts, p) == p = 1 \/ ts[p - 1].c = "\n"

\* $ with the m flag holds behind position e
IsLineEnd(ts, e) == e = Len(ts) \/ ts[e + 1].c = "\n"

\* .replace(/^\s*[\w\s]*?(\{)/m, '$1') tried from position p on: the leftmost line
\* start that only words and whitespace separate from the next "{" loses them
RECURSIVE RemoveLeading(_, _)
RemoveLeading(ts, p) ==
    LET q == FirstOf(ts, p, {"{"})
    IN  IF p > Len(ts) \/ q = 0 THEN ts
        ELSE IF /\ IsLineStart(ts, p)
                /\ \A k \in p..(q - 1) : ts[k].c \in {"word", " ", "\n"}
        THEN SubSeq(ts, 1, p - 1) \o SubSeq(ts, q, Len(ts))
        ELSE RemoveLeading(ts, p + 1)

\* [\w\s]*?$ behind position k: the first line end that only words and blanks
\* separate from k, or 0
RECURSIVE WordsToLineEnd(_, _)
WordsToLineEnd(ts, m) ==
    IF m > Len(ts) THEN 0
    ELSE IF ts[m].c \notin {"word", " "} THEN 0
    ELSE IF IsLineEnd(ts, m) THEN m
    ELSE WordsToLineEnd(ts, m + 1)

\* the last position in lo..hi holding a newline, or 0
LastNewline(ts, lo, hi) ==
    IF \E n \in lo..hi : ts[n].c = "\n"
    THEN CHOOSE n \in lo..hi : ts[n].c = "\n" /\ \A o \in (n + 1)..hi : ts[o].c # "\n"
    ELSE 0

\* \s*[\w\s]*?$ behind the "}" at position j: the end of the match, or 0.
\* \s* takes the whole run of whitespace and [\w\s]*? goes on to the first line end;
\* when another character comes first, \s* gives back up to the last newline
TrailingEnd(ts, j) ==
    LET k == SkipSpace(ts, j + 1) - 1
    IN  IF k = Len(ts) THEN k
        ELSE IF WordsToLineEnd(ts, k + 1) # 0 THEN WordsToLineEnd(ts, k + 1)
        ELSE IF LastNewline(ts, j + 1, k) # 0 THEN LastNewline(ts, j + 1, k) - 1
        ELSE 0

\* .replace(/(\})\s*[\w\s]*?$/m, '$1') tried from position p on
RECURSIVE RemoveTrailing(_, _)
RemoveTrailing(ts, p) ==
    LET j == FirstOf(ts, p, {"}"})
    IN  IF j = 0 THEN ts
        ELSE IF TrailingEnd(ts, j) # 0
        THEN SubSeq(ts, 1, j) \o SubSeq(ts, TrailingEnd(ts, j) + 1, Len(ts))
        ELSE RemoveTrailing(ts, j + 1)

\* .replace(/,\s*}/g, '}') and .replace(/,\s*]/g, ']')
RECURSIVE DropTrailingCommas(_, _)
DropTrailingCommas(ts, closer) ==
    IF ts = <<>> THEN <<>>
    ELSE IF /\ ts[1].c = ","
            /\ SkipSpace(ts, 2) <= Len(ts)
            /\ ts[SkipSpace(ts, 2)].c = closer
    THEN DropTrailingCommas(SubSeq(ts, SkipSpace(ts, 2), Len(ts)), closer)
    ELSE <<ts[1]>> \o DropTrailingCommas(Tail(ts), closer)

\* only whitespace lies between position j and a "{" or "," before it
RECURSIVE FollowsOpener(_, _)
FollowsOpener(ts, j) ==
    IF j <= 1 THEN FALSE
    ELSE IF ts[j - 1].c \in {"{", ","} THEN TRUE
    ELSE IF IsSpace(ts[j - 1]) THEN FollowsOpener(ts, j - 1)
    ELSE FALSE

\* .replace(/([{,]\s*)(\w+):/g, '$1"$2":')
QuoteKeys(ts) ==
    [j \in 1..Len(ts) |->
        IF /\ ts[j].c = "word"
           /\ j < Len(ts)
           /\ ts[j + 1].c = ":"
           /\ FollowsOpener(ts, j)
        THEN [c |-> "string", v |-> ts[j].v]
        ELSE ts[j]]

\* the characters of the tokens lo..hi
RECURSIVE TextOf(_, _, _)
TextOf(ts, lo, hi) ==
    IF lo > hi THEN <<>> ELSE TokenText(ts[lo]) \o TextOf(ts, lo + 1, hi)

\* the last position in lo..hi holding no whitespace (lo holds none)
RECURSIVE LastNonSpace(_, _, _)
LastNonSpace(ts, lo, hi) ==
    IF hi <= lo \/ ~IsSpace(ts[hi]) THEN hi ELSE LastNonSpace(ts, lo, hi - 1)

\* line 150 tried at the ":" at position i: the value starts at the first token behind
\* the whitespace, which is none of " , { [ ] }, and runs over such tokens and
\* whitespace up to a "," or "}".  The position of that closer, or 0
ValueCloser(ts, i) ==
    LET j == SkipSpace(ts, i + 1)
        e == IF j > Len(ts) THEN 0 ELSE FirstOf(ts, j, {"string", ",", "{", "[", "]", "}", "fence"})
    IN  IF j > Len(ts) \/ e = 0 \/ e = j THEN 0
        ELSE IF ts[e].c \in {",", "}"} THEN e
        ELSE 0

\* .replace(/:\s*([^",{\[\]}\s][^",{\[\]}]*?)(\s*[,}])/g, ':"$1"$2') from position i on
RECURSIVE QuoteValues(_, _)
QuoteValues(ts, i) ==
    IF i > Len(ts) THEN <<>>
    ELSE IF ts[i].c = ":" /\ ValueCloser(ts, i) # 0
    THEN LET j == SkipSpace(ts, i + 1)
             e == ValueCloser(ts, i)
             n == LastNonSpace(ts, j, e - 1)
         IN  <<Colon, [c |-> "string", v |-> TextOf(ts, j, n)]>>
                 \o SubSeq(ts, n + 1, e) \o QuoteValues(ts, e + 1)
    ELSE <<ts[i]>> \o QuoteValues(ts, i + 1)

\* lines 138-150
CleanedText(ts) ==
    LET stripped == RemoveFences(RemoveJsonFences(ts))
        cut == TrimTokens(RemoveTrailing(RemoveLeading(stripped, 1), 1))
    IN  QuoteValues(QuoteKeys(DropTrailingCommas(DropTrailingCommas(cut, "}"), "]")), 1)

\* lines 138-157
Strategy4(ts) == TryParse(CleanedText(ts))

\* a text, or a value that is no string
TextInput(ts) == [type |-> "string", tokens |-> ts]

NoText(type) == [type |-> type, tokens |-> <<>>]

\* extractJSON(text), lines 75-158: what it returns (ParsedNull for null) or the
\* error that leaves it
extractJSONText(text) ==
    IF text.type # "string" \/ text.tokens = <<>> THEN Completion("value", ParsedNull)
    ELSE IF Strategy1(text.tokens).kind # "caught" THEN Strategy1(text.tokens)
    ELSE IF Strategy2(text.tokens).kind # "caught" THEN Strategy2(text.tokens)
    ELSE IF Strategy3(text.tokens).kind # "caught" THEN Strategy3(text.tokens)
    ELSE IF Strategy4(text.tokens).kind # "caught" THEN Strategy4(text.tokens)
    ELSE Completion("value", ParsedNull)

\* ------------------------------------------- raw values the reasoner may deliver
NumericRaw ==
    {Undefined, Null, Num(0), Num(-5), Frac(25, 2), Num(40), Num(700), Num(1000000),
     Str(<<"abc">>), Str(<<"7", "0", "0">>), Bool(TRUE), Obj, ObjNoToString}

RatingRaw ==
    {Undefined, Null, Num(5), Str(<<"Excellent">>), Str(<<"Very Poor">>),
     Str(<<"excellent">>), Str(<<" ", "Fair">>), Str(<<"Low">>)}

RiskLevelRaw ==
    {Undefined, Num(5), Str(<<"Low">>), Str(<<"High">>), Str(<<"low">>),
     Str(<<"Excellent">>)}

TextRaw ==
    {Undefined, Null, Str(<<>>), Str(<<" ">>), Str(<<"ok">>), Str(<<" ", "ok", " ">>),
     Num(0), Num(5), Arr(<<>>), Obj, Arr(<<Str(<<"ok">>), ObjNoToString>>)}

ReasoningRaw == {Undefined, Str(<<" ">>), Str(<<" ", "why">>), Frac(5, 2), Arr(<<Num(1), Null>>)}

LongList == [i \in 1..7 |-> Str(<<"f", Digits[i]>>)]

ListRaw ==
    {Undefined, Str(<<"x">>), Arr(<<>>), Arr(<<Str(<<>>), Str(<<" ">>)>>),
     Arr(<<Str(<<"a">>), Num(5), Str(<<" ", "b", " ">>), Str(<<" ">>)>>), Arr(LongList)}

SuggestionsRaw == {Undefined, Obj, Arr(<<Num(5)>>), Arr(<<Str(<<"s">>)>>)}

OtherRaw == {Undefined, Str(<<"m">>), Num(5)}

FieldValues(k) ==
    CASE k \in {"creditScore", "maxCreditLimit", "interestRate"} -> NumericRaw
      [] k = "score" -> {Undefined, Num(800)}
      [] k = "confidence" -> {Undefined, Num(0), Num(85)}
      [] k = "rating" -> RatingRaw
      [] k = "riskLevel" -> RiskLevelRaw
      [] k = "recommendation" -> TextRaw
      [] k = "reasoning" -> ReasoningRaw
      [] k = "keyFactors" -> ListRaw
      [] k = "improvementSuggestions" -> SuggestionsRaw
      [] OTHER -> OtherRaw

\* ---------------------------------------------------------- document processor
\* a file descriptor of req.body.files; a file name is a sequence of words
File(id, originalName, mimetype) ==
    [id |-> id, originalName |-> originalName, mimetype |-> mimetype]

\* lines 243-255
determineDocumentType(filename) ==
    IF IncludesWord(filename, "bank") \/ IncludesWord(filename, "statement")
    THEN Str(<<"bank_statement">>)
    ELSE IF \/ IncludesWord(filename, "financial")
            \/ IncludesWord(filename, "income")
            \/ IncludesWord(filename, "revenue")
    THEN Str(<<"financial">>)
    ELSE IF \/ IncludesWord(filename, "legal")
            \/ IncludesWord(filename, "contract")
            \/ IncludesWord(filename, "agreement")
    THEN Str(<<"legal">>)
    ELSE Str(<<"unknown">>)

\* extractFinancialData (lines 249-275) once the vision model has answered: json is
\* the object extractJSON recovered, found tells whether it recovered one
extractFinancialData(found, json, documentType) ==
    IF found
    THEN [json EXCEPT !.documentType = Or(json.documentType, documentType)]
    ELSE [k \in FactKeys |->
            CASE k = "documentType" -> documentType
              [] k = "riskFactors" ->
                    Arr(<<Str(<<"Unable to parse structured data from vision model">>)>>)
              [] k = "confidence" -> Num(50)
              [] OTHER -> Undefined]

\* combined.riskFactors.push(...data.riskFactors) (line 287) is a TypeError when a
\* truthy riskFactors is not iterable
CombineRaises(dataArray) ==
    /\ Len(dataArray) >= 2
    /\ \E i \in 1..Len(dataArray) :
        /\ Truthy(dataArray[i].riskFactors)
        /\ dataArray[i].riskFactors.t \notin {"array", "string"}

NoDocument ==
    ProcessingResult(DocRecord(Undefined, EmptyFact, Undefined, FmMissing, Undefined),
                     0, 0, Undefined)

\* how a try block ended: with a value returned or an error thrown
Returned(value) == [kind |-> "value", value |-> value, message |-> <<>>]

Thrown(message) == [kind |-> "error", value |-> NoDocument, message |-> message]

NoPending == [kind |-> "none", value |-> NoDocument, message |-> <<>>]

\* lines 78-84 and 21-33: a result carries the id and the name of its file
ResultFor(file, r) ==
    [fileId |-> file.id, fileName |-> file.originalName,
     extractedData |-> r.extractedData, imageCount |-> r.imageCount,
     processingTime |-> r.processingTime, error |-> r.error]

\* lines 73-84: the value processIndividualDocument returns, or the error of line 287
CombineAndReturn(file, dataArray, imageCount, seconds) ==
    IF CombineRaises(dataArray)
    THEN Thrown(<<"Spread syntax requires ...iterable[Symbol.iterator] to be a function">>)
    ELSE Returned(ProcessingResult(
            combineExtractedData(dataArray, determineDocumentType(file.originalName)),
            imageCount, seconds, Undefined))

\* mutant of AfterRemove: a failed fs.remove is not caught
AfterRemoveUncaught(completion, removed) ==
    IF removed THEN completion ELSE Thrown(<<"EBUSY: resource busy or locked, rmdir">>)

\* lines 86-93: the finally block catches a failure of fs.remove, so the completion
\* of the try block is the completion of processIndividualDocument
AfterRemove(completion, removed) == completion

\* mutant of PushCompletion: a failed document ends the batch without a record
PushCompletionAborting(results, file, completion) ==
    IF completion.kind = "error" THEN results
    ELSE Append(results, ResultFor(file, completion.value))

\* lines 15-34: one iteration of processDocuments' loop pushes exactly one result
PushCompletion(results, file, completion) ==
    IF completion.kind = "error"
    THEN Append(results, ResultFor(file, ErrorResult(completion.message)))
    ELSE Append(results, ResultFor(file, completion.value))

\* ------------------------------------------------------- sanitizer harness
SanitizeIdle ==
    /\ sPc = "off"
    /\ raw = EmptyObject
    /\ sanitized = EmptyObject
    /\ resanitized = EmptyObject
    /\ clock = 0

FallbackIdle ==
    /\ fPc = "off"
    /\ fallbackOut = EmptyObject
    /\ fallbackConfidence = Undefined

CombineIdle ==
    /\ cPc = "off"
    /\ facts = <<>>
    /\ declaredType = Str(<<"unknown">>)
    /\ combined = DocRecord(Undefined, EmptyFact, Undefined, FmMissing, Undefined)

AnalysisIdle ==
    /\ aPc = "off"
    /\ summary = NoSummary
    /\ outcome = NoOutcome
    /\ result = NoResult(FALSE)
    /\ reasonerCalls = 0
    /\ fallbackRuns = 0

NoResponse == [status |-> 0, success |-> FALSE, error |-> <<>>, details |-> <<>>]

DocumentIdle ==
    /\ fileIx = 1
    /\ dPc = "start"
    /\ images = 0
    /\ extractedDataArray = <<>>
    /\ pending = NoPending
    /\ cleaned = {}

ExtractIdle ==
    /\ xPc = "off"
    /\ replyText = NoText("undefined")
    /\ pieces = 0
    /\ extractedJSON = Completion("none", ParsedNull)

\* useState's initial values (lines 119-125), no run started
ClientIdle ==
    /\ kPc = "off"
    /\ uploaded = <<>>
    /\ isProcessing = FALSE
    /\ processorState = [currentStage |-> "uploading", progress |-> 0]
    /\ analysisResults = "null"
    /\ uploadResponse = "none"
    /\ processResponse = "none"
    /\ stageLog = <<>>
    /\ alerted = <<>>

RestIdle == ExtractIdle /\ ClientIdle

ProcessIdle ==
    /\ hPc = "off"
    /\ files = <<>>
    /\ response = NoResponse
    /\ DocumentIdle

SanitizeInit ==
    /\ ProcessIdle
    /\ RestIdle
    /\ sPc = "input"
    /\ raw = EmptyObject
    /\ sanitized = EmptyObject
    /\ resanitized = EmptyObject
    /\ clock = 0
    /\ FallbackIdle
    /\ CombineIdle
    /\ AnalysisIdle
    /\ records = <<>>

\* the reasoner's object gains one more field
SetField(k, v) ==
    /\ sPc = "input"
    /\ raw[k] = Undefined
    /\ Cardinality({j \in RecKeys : raw[j] # Undefined}) < MaxFields
    /\ raw' = [raw EXCEPT ![k] = v]
    /\ UNCHANGED <<restVars, sPc, sanitized, resanitized, clock, fbVars, records, cmbVars, anVars, procVars>>

Sanitize ==
    /\ sPc = "input"
    /\ IF SanitizeRaises(raw)
       THEN /\ sPc' = "raised"
            /\ UNCHANGED <<restVars, sanitized, clock>>
       ELSE /\ sanitized' = sanitizeCreditRecommendation(raw, clock)
            /\ clock' = clock + 1
            /\ sPc' = "sanitized"
    /\ UNCHANGED <<restVars, raw, resanitized, fbVars, records, cmbVars, anVars, procVars>>

Resanitize ==
    /\ sPc = "sanitized"
    /\ resanitized' = sanitizeCreditRecommendation(sanitized, clock)
    /\ clock' = clock + 1
    /\ sPc' = "resanitized"
    /\ UNCHANGED <<restVars, raw, sanitized, fbVars, records, cmbVars, anVars, procVars>>

SanitizeNext ==
    \/ \E k \in RecKeys : \E v \in FieldValues(k) : SetField(k, v)
    \/ Sanitize
    \/ Resanitize

SpecSanitize == SanitizeInit /\ [][SanitizeNext]_vars

\* ------------------------------------------------- processing results to score
LatePayments == [i \in 1..12 |-> Str(<<"late", " ", "payment">>)]

RiskSamples ==
    {Arr(<<>>),
     Arr(<<Str(<<"Low", " ", "Income">>), Str(<<"High", " ", "Debt">>)>>),
     Arr(<<Str(<<"Low", " ", "Balance">>), Str(<<"late", " ", "payment">>),
           Str(<<"overdraft", " ", "fees">>)>>),
     Arr(LatePayments)}

MetricSamples ==
    {FmMissing, FmNull, FmObject(NoMetrics),
     FmObject(Metrics(Num(40000), Undefined, Num(90000), Undefined)),
     FmObject(Metrics(Undefined, Num(20000), Undefined, Num(30000))),
     FmObject(Metrics(Num(30000), Undefined, Num(75000), Undefined)),
     FmObject(Metrics(Num(20000), Num(500000), Num(100000), Num(5)))}

DocTypeSamples == {"unknown", "bank_statement", "financial", "legal"}

\* images behind a record: none (no metrics property), one (null or metrics), several
ImagesBehind(fm) ==
    IF fm.kind = "undefined" THEN 0
    ELSE IF fm = FmObject(NoMetrics) THEN 2
    ELSE 1

SampleResult(type, riskFactors, fm) ==
    ProcessingResult(
        DocRecord(Str(<<type>>), EmptyFact, riskFactors, fm,
                  IF fm.kind = "undefined" THEN Num(0) ELSE Undefined),
        ImagesBehind(fm), 1, Undefined)

\* results of processDocuments: documents that differ from the plain one in their
\* type or in their risk factors, with every kind of metrics, and the error record
ResultSamples ==
    {SampleResult(type, rf, fm) :
        type \in {"unknown"}, rf \in RiskSamples, fm \in MetricSamples}
    \cup {SampleResult(type, Arr(<<>>), fm) :
            type \in DocTypeSamples, fm \in MetricSamples}
    \cup {ErrorResult(<<"Failed to process image">>)}

\* ------------------------------------------------------- fallback harness
FallbackInit ==
    /\ ProcessIdle
    /\ RestIdle
    /\ fPc = "input"
    /\ records = <<>>
    /\ fallbackOut = EmptyObject
    /\ fallbackConfidence = Undefined
    /\ SanitizeIdle
    /\ CombineIdle
    /\ AnalysisIdle

AddRecord(r) ==
    /\ fPc = "input"
    /\ Len(records) < MaxRecords
    /\ records' = Append(records, r)
    /\ UNCHANGED <<restVars, fbVars, sanVars, cmbVars, anVars, procVars>>

RunFallback ==
    /\ fPc = "input"
    /\ fallbackOut' = generateFallbackRecommendation(records)
    /\ fPc' = "scored"
    /\ UNCHANGED <<restVars, fallbackConfidence, records, sanVars, cmbVars, anVars, procVars>>

FallbackNext ==
    \/ \E r \in ResultSamples : AddRecord(r)
    \/ RunFallback

SpecFallback == FallbackInit /\ [][FallbackNext]_vars

\* ------------------------------------------------ fallback confidence harness
\* a processed document and a failed one
ConfidenceSamples ==
    {SampleResult("unknown", Arr(<<>>), FmNull), ErrorResult(<<"Failed to process image">>)}

ConfidenceInit ==
    /\ ProcessIdle
    /\ RestIdle
    /\ fPc = "input"
    /\ records = <<>>
    /\ fallbackOut = EmptyObject
    /\ fallbackConfidence = Undefined
    /\ SanitizeIdle
    /\ CombineIdle
    /\ AnalysisIdle

AddDocument(r) ==
    /\ fPc = "input"
    /\ Len(records) < MaxDocuments
    /\ records' = Append(records, r)
    /\ UNCHANGED <<restVars, fbVars, sanVars, cmbVars, anVars, procVars>>

RunConfidence ==
    /\ fPc = "input"
    /\ fallbackConfidence' = Num(calculateFallbackConfidence(records))
    /\ fPc' = "rated"
    /\ UNCHANGED <<restVars, fallbackOut, records, sanVars, cmbVars, anVars, procVars>>

ConfidenceNext ==
    \/ \E r \in ConfidenceSamples : AddDocument(r)
    \/ RunConfidence

SpecConfidence == ConfidenceInit /\ [][ConfidenceNext]_vars

\* ------------------------------------------------------------ sanitizer claims
\* sanitizeCreditRecommendation(raw) has returned
HasSanitized == sPc \in {"sanitized", "resanitized"}

InRange(v, lo, hi) == v.t = "number" /\ NumLE(Num(lo), v) /\ NumLE(v, Num(hi))

\* C1: for every raw object the sanitized score lies in [300,850], the interest rate
\* in [0,50] and the credit limit is >= 0, and a creditScore that is absent or not a
\* number yields the score 650.
C1_SanitizedNumbersInRange ==
    HasSanitized =>
        /\ InRange(sanitized.score, 300, 850)
        /\ InRange(sanitized.interestRate, 0, 50)
        /\ sanitized.maxCreditLimit.t = "number"
        /\ NumLE(Num(0), sanitized.maxCreditLimit)
        /\ (raw.creditScore.t # "number" => sanitized.score = Num(650))

\* C2: sanitizing is idempotent: a second sanitize call returns the record the first
\* one returned, field for field, the score included.
C2_SanitizeIdempotent ==
    sPc = "resanitized" =>
        /\ resanitized.score = sanitized.score
        /\ resanitized = sanitized

\* --------------------------------------------------------- combiner harness
\* an image's fact: the parsed object plus the documentType extractFinancialData sets
Fact(documentType, monthlyIncome, totalAssets, riskFactors) ==
    [k \in FactKeys |->
        CASE k = "documentType" -> documentType
          [] k = "monthlyIncome" -> monthlyIncome
          [] k = "totalAssets" -> totalAssets
          [] k = "riskFactors" -> riskFactors
          [] k = "confidence" -> Num(85)
          [] OTHER -> Undefined]

RiskR == Str(<<"r">>)

RiskS == Str(<<"s">>)

\* the structure extractFinancialData returns when no JSON could be extracted
UnparsedFact(documentType) ==
    [k \in FactKeys |->
        CASE k = "documentType" -> documentType
          [] k = "riskFactors" ->
                Arr(<<Str(<<"Unable to parse structured data from vision model">>)>>)
          [] k = "confidence" -> Num(50)
          [] OTHER -> Undefined]

FactSamples ==
    {Fact(Str(<<"bank_statement">>), income, assets, rf) :
        income \in {Undefined, Num(0), Num(1000), Num(3000), Str(<<"5", "0", "0">>)},
        assets \in {Undefined, Num(500)},
        rf \in {Undefined, Arr(<<RiskR>>), Arr(<<RiskR, RiskS>>)}}
    \cup {Fact(Str(<<"invoice">>), Undefined, Undefined, Arr(<<RiskS, RiskR, RiskS>>)),
          Fact(Undefined, Num(1000), Undefined, Arr(<<>>)),
          UnparsedFact(Str(<<"financial">>))}

FileTypes == {Str(<<"bank_statement">>), Str(<<"financial">>)}

CombineInit ==
    /\ ProcessIdle
    /\ RestIdle
    /\ cPc = "input"
    /\ facts = <<>>
    /\ declaredType \in FileTypes
    /\ combined = DocRecord(Undefined, EmptyFact, Undefined, FmMissing, Undefined)
    /\ SanitizeIdle
    /\ FallbackIdle
    /\ AnalysisIdle
    /\ records = <<>>

\* the extractor returned the fact of the next image
AddFact(f) ==
    /\ cPc = "input"
    /\ Len(facts) < MaxImages
    /\ facts' = Append(facts, f)
    /\ UNCHANGED <<restVars, cPc, declaredType, combined, sanVars, fbVars, records, anVars, procVars>>

Combine ==
    /\ cPc = "input"
    /\ combined' = combineExtractedData(facts, declaredType)
    /\ cPc' = "combined"
    /\ UNCHANGED <<restVars, facts, declaredType, sanVars, fbVars, records, anVars, procVars>>

CombineNext ==
    \/ \E f \in FactSamples : AddFact(f)
    \/ Combine

SpecCombine == CombineInit /\ [][CombineNext]_vars

\* ------------------------------------------------------- analysis harness
\* processing results handed to analyzeCredit
AnalysisSamples ==
    {SampleResult("unknown", Arr(<<>>), FmNull),
     SampleResult("bank_statement", Arr(<<>>),
                  FmObject(Metrics(Num(40000), Undefined, Num(90000), Undefined))),
     SampleResult("financial",
                  Arr(<<Str(<<"Low", " ", "Balance">>), Str(<<"late", " ", "payment">>),
                        Str(<<"overdraft", " ", "fees">>)>>),
                  FmObject(NoMetrics)),
     SampleResult("legal", Arr(<<Str(<<"Low", " ", "Income">>), Str(<<"High", " ", "Debt">>)>>),
                  FmMissing),
     ErrorResult(<<"Failed to process image">>)}

\* a complete answer of the reasoner, keys as the prompt asks for them
ReasonerObject(creditScore, riskLevel, confidence) ==
    [k \in RecKeys |->
        CASE k = "creditScore" -> creditScore
          [] k = "rating" -> Str(<<"Good">>)
          [] k = "riskLevel" -> riskLevel
          [] k = "recommendation" -> Str(<<"approve">>)
          [] k = "keyFactors" -> Arr(<<Str(<<"stable", " ", "income">>)>>)
          [] k = "improvementSuggestions" -> Arr(<<Str(<<"reduce", " ", "debt">>)>>)
          [] k = "maxCreditLimit" -> Num(15000)
          [] k = "interestRate" -> Frac(25, 2)
          [] k = "reasoning" -> Str(<<"scoring", " ", "method">>)
          [] k = "confidence" -> confidence
          [] k = "analysisModel" -> Str(<<"deepseek-r1:8b">>)
          [] OTHER -> Undefined]

ReasonerObjects ==
    {EmptyObject, ReasonerObject(ObjNoToString, Str(<<"Low">>), Num(85))}
    \cup {ReasonerObject(score, risk, conf) :
            score \in {Num(720), Str(<<"abc">>)},
            risk \in {Str(<<"Low">>), Str(<<"High">>), Undefined},
            conf \in {Num(85), Undefined}}

ReasonerErrors == {<<"timeout of 180000ms exceeded">>, <<"connect ECONNREFUSED">>}

AnalyzeInit ==
    /\ ProcessIdle
    /\ RestIdle
    /\ aPc = "input"
    /\ records = <<>>
    /\ summary = NoSummary
    /\ outcome = NoOutcome
    /\ result = NoResult(FALSE)
    /\ reasonerCalls = 0
    /\ fallbackRuns = 0
    /\ clock = 0
    /\ sPc = "off"
    /\ raw = EmptyObject
    /\ sanitized = EmptyObject
    /\ resanitized = EmptyObject
    /\ FallbackIdle
    /\ CombineIdle

\* processDocuments produced one more result
ReceiveResult(r) ==
    /\ aPc = "input"
    /\ Len(records) < MaxResults
    /\ records' = Append(records, r)
    /\ UNCHANGED <<restVars, sanVars, fbVars, cmbVars, anVars, procVars>>

\* analyzeCredit up to its await (lines 4-33): the summary is built, the reasoner called
AnalyzeStart ==
    /\ aPc = "input"
    /\ summary' = BuildSummary(records)
    /\ reasonerCalls' = reasonerCalls + 1
    /\ aPc' = "awaiting"
    /\ UNCHANGED <<restVars, outcome, result, fallbackRuns, records, sanVars, fbVars, cmbVars, procVars>>

\* lines 30-36 and 55: the catch block runs when the awaited call rejects or the
\* sanitizer raises
UsesFallback(got) == got.threw \/ SanitizeRaises(got.value)

\* analyzeCredit after the reasoner call has settled (lines 30-70)
Finish(settled) ==
    LET got == generateCreditRecommendation(settled, clock)
    IN  /\ aPc = "awaiting"
        /\ outcome' = settled
        /\ fallbackRuns' = IF UsesFallback(got) THEN fallbackRuns + 1 ELSE fallbackRuns
        /\ result' =
            IF ~UsesFallback(got)
            THEN SuccessResult(records, got.value, summary, clock + 1)
            ELSE IF FallbackRaises(records) THEN NoResult(TRUE)
            ELSE FallbackResult(records,
                                IF got.threw THEN got.message
                                ELSE <<"Cannot convert object to primitive value">>)
        /\ clock' = clock + 2
        /\ aPc' = "done"
        /\ UNCHANGED <<restVars, summary, reasonerCalls, records, sPc, raw, sanitized, resanitized,
                       fbVars, cmbVars, procVars>>

\* the reasoner call failed: network error, timeout
ReasonerRaises(message) == Finish(Raised(message))

\* the reasoner call returned a response
ReasonerReplies(kind, object) == Finish(Replied(kind, object))

AnalyzeNext ==
    \/ \E r \in AnalysisSamples : ReceiveResult(r)
    \/ AnalyzeStart
    \/ \E message \in ReasonerErrors : ReasonerRaises(message)
    \/ \E object \in ReasonerObjects : ReasonerReplies("json", object)
    \/ \E kind \in {"missing", "prose"} : ReasonerReplies(kind, EmptyObject)

SpecAnalyze == AnalyzeInit /\ [][AnalyzeNext]_vars

\* ------------------------------------------------------ fallback scorer claims
\* the tier of the claim, decided on the sums: avg > t  iff  sum > t * n
ClaimedTier ==
    LET financialData == FinancialData(records)
        n == Len(financialData)
        income == SumIncome(financialData)
        assets == SumAssets(financialData)
    IN  IF n = 0 THEN <<0, "Medium">>
        ELSE IF NumLT(Num(30000 * n), income) /\ NumLT(Num(75000 * n), assets)
             THEN <<100, "Low">>
        ELSE IF NumLT(Num(15000 * n), income) /\ NumLT(Num(25000 * n), assets)
             THEN <<50, "Medium">>
        ELSE <<-50, "High">>

\* R: the risk-factor strings of all records
TotalRiskFactors == Len(AllRiskFactors(records))

ClaimedScore ==
    LET base == 650 + ClaimedTier[1] - 15 * TotalRiskFactors
    IN  IF base < 300 THEN 300 ELSE IF base > 850 THEN 850 ELSE base

\* C5: the fallback score is clamp(650 + adj - 15*R, 300, 850) with adj and riskLevel
\* from one tier (+100/Low, +50/Medium, -50/High, 0/Medium without metrics); average
\* income 40000, assets 90000, R = 0 give 750/Low; no metrics and R = 5 give 575/Medium.
C5_FallbackScoreFormula ==
    fPc = "scored" =>
        LET financialData == FinancialData(records)
            n == Len(financialData)
        IN  /\ fallbackOut.score = Num(ClaimedScore)
            /\ fallbackOut.riskLevel = Str(<<ClaimedTier[2]>>)
            /\ (/\ n > 0
                /\ SumIncome(financialData) = Num(40000 * n)
                /\ SumAssets(financialData) = Num(90000 * n)
                /\ TotalRiskFactors = 0)
                    => /\ fallbackOut.score = Num(750)
                       /\ fallbackOut.riskLevel = Str(<<"Low">>)
            /\ (n = 0 /\ TotalRiskFactors = 5)
                    => /\ fallbackOut.score = Num(575)
                       /\ fallbackOut.riskLevel = Str(<<"Medium">>)

\* C5 witness: two records without metrics and five risk factors were scored
C5_Witness ==
    /\ fPc = "scored"
    /\ Len(records) = 2
    /\ Len(FinancialData(records)) = 0
    /\ TotalRiskFactors = 5
    /\ fallbackOut.score = Num(575)

\* C5 witness of the averaged tiers: 40000 and 20000 average to exactly 30000
C5_WitnessBoundary ==
    /\ fPc = "scored"
    /\ Len(FinancialData(records)) = 2
    /\ SumIncome(FinancialData(records)) = Num(60000)
    /\ fallbackOut.riskLevel = Str(<<"Medium">>)

NonEmptyText(v) == v.t = "string" /\ Len(Trim(v.s)) > 0

WellFormedList(v, most) ==
    /\ v.t = "array"
    /\ Len(v.a) >= 1
    /\ Len(v.a) <= most
    /\ \A i \in 1..Len(v.a) : NonEmptyText(v.a[i])

\* C6: for every sequence of records the fallback scorer returns a record meeting
\* every CreditRecommendation invariant: integer score in [300,850], rating and
\* riskLevel in their enums, non-empty recommendation and reasoning, 1 to 6 key factors
\* and suggestions, limit >= 0, rate in [0,50], analysisModel and generatedAt present.
C6_FallbackOutputWellFormed ==
    fPc = "scored" =>
        /\ InRange(fallbackOut.score, 300, 850)
        /\ fallbackOut.score.d = 1
        /\ fallbackOut.rating \in validRatings
        /\ fallbackOut.riskLevel \in validRiskLevels
        /\ NonEmptyText(fallbackOut.recommendation)
        /\ NonEmptyText(fallbackOut.reasoning)
        /\ WellFormedList(fallbackOut.keyFactors, 6)
        /\ WellFormedList(fallbackOut.improvementSuggestions, 6)
        /\ InRange(fallbackOut.maxCreditLimit, 0, fallbackOut.maxCreditLimit.n)
        /\ InRange(fallbackOut.interestRate, 0, 50)
        /\ fallbackOut.analysisModel # Undefined
        /\ fallbackOut.generatedAt # Undefined

\* the five bands of the claim: <<rating, limit, rate>>
ClaimedBand(score) ==
    IF score >= 800 THEN <<"Excellent", 50000, Frac(65, 10)>>
    ELSE IF score >= 740 THEN <<"Good", 25000, Frac(92, 10)>>
    ELSE IF score >= 670 THEN <<"Fair", 15000, Frac(135, 10)>>
    ELSE IF score >= 580 THEN <<"Poor", 8000, Frac(189, 10)>>
    ELSE <<"Very Poor", 3000, Frac(249, 10)>>

BandEdges == {300, 579, 580, 669, 670, 739, 740, 799, 800, 850}

\* C7: rating, maxCreditLimit and interestRate of a fallback output all come from the
\* band of its final score (800 / 740 / 670 / 580), so a higher score never gets a
\* lower limit or a higher rate.
C7_BandsAgree ==
    fPc = "scored" =>
        LET band == ClaimedBand(fallbackOut.score.n)
        IN  /\ fallbackOut.rating = Str(<<band[1]>>)
            /\ fallbackOut.maxCreditLimit = Num(band[2])
            /\ fallbackOut.interestRate = band[3]
            /\ \A lo \in BandEdges \cup {fallbackOut.score.n} :
                \A hi \in BandEdges \cup {fallbackOut.score.n} :
                    lo <= hi =>
                        /\ calculateCreditLimit(lo) <= calculateCreditLimit(hi)
                        /\ NumLE(calculateInterestRate(hi), calculateInterestRate(lo))
                        /\ getScoreRating(lo) = getScoreRating(hi)
                            => calculateCreditLimit(lo) = calculateCreditLimit(hi)

\* C7 witness: an output in the Good band (score 750, limit 25000, rate 9.2)
C7_Witness ==
    /\ fPc = "scored"
    /\ fallbackOut.score = Num(750)
    /\ fallbackOut.rating = Str(<<"Good">>)
    /\ fallbackOut.maxCreditLimit = Num(25000)

\* ------------------------------------------------------- fact combiner claims
\* C8: with zero extracted facts the record has documentType 'error' whatever the
\* declared type, empty keyInformation, riskFactors exactly ['No data extracted'] and
\* confidence 0.
C8_EmptyInputIsErrorRecord ==
    (cPc = "combined" /\ facts = <<>>) =>
        /\ combined.documentType = Str(<<"error">>)
        /\ combined.keyInformation = EmptyFact
        /\ combined.riskFactors = Arr(<<Str(<<"No data extracted">>)>>)
        /\ combined.confidence = Num(0)

\* the images that supplied a numeric value for a field, in image order
Suppliers(field) ==
    SelectSeq([i \in 1..Len(facts) |-> IF facts[i][field].t = "number" THEN facts[i][field]
                                          ELSE Undefined], IsDefined)

\* C9: for two or more facts, financialMetrics holds for each of the eight recognized
\* fields the arithmetic mean over exactly the images that supplied a number for it,
\* and omits a field only when no image supplied it.
C9_FieldwiseMean ==
    (cPc = "combined" /\ Len(facts) >= 2) =>
        /\ combined.financialMetrics.kind = "object"
        /\ \A f \in FinFieldSet :
            LET values == Suppliers(f)
            IN  IF Len(values) = 0
                THEN combined.financialMetrics.m[f] = Undefined
                ELSE /\ combined.financialMetrics.m[f].t = "number"
                     /\ combined.financialMetrics.m[f].n * Len(values) * SumValues(values).d
                            = SumValues(values).n * combined.financialMetrics.m[f].d

\* every risk-factor string of every image, in image order
RECURSIVE AllListed(_)
AllListed(dataArray) ==
    IF dataArray = <<>> THEN <<>>
    ELSE (IF dataArray[1].riskFactors.t = "array" THEN dataArray[1].riskFactors.a ELSE <<>>)
         \o AllListed(Tail(dataArray))

\* positions of q at which a string occurs for the first time
FirstPositions(q) == {i \in 1..Len(q) : \A j \in 1..(i - 1) : q[j] # q[i]}

\* C10: for two or more facts, riskFactors is the union of the images' lists without
\* duplicates, ordered by first occurrence over the images in order; ['r'] and
\* ['r','s'] combine to ['r','s'] and monthlyIncome 1000 and 3000 to 2000.
C10_RiskFactorUnion ==
    (cPc = "combined" /\ Len(facts) >= 2) =>
        LET all == AllListed(facts)
            out == combined.riskFactors.a
            first == FirstPositions(all)
        IN  /\ combined.riskFactors.t = "array"
            /\ Len(out) = Cardinality(first)
            /\ \A i \in 1..Len(out) : \A j \in 1..Len(out) : (out[i] = out[j]) => (i = j)
            /\ \A i \in first : Contains(out, all[i])
            /\ \A i \in first : \A j \in first :
                i < j => \E a \in 1..Len(out) : \E b \in 1..Len(out) :
                            a < b /\ out[a] = all[i] /\ out[b] = all[j]
            /\ (/\ Len(facts) = 2
                /\ facts[1].riskFactors = Arr(<<RiskR>>)
                /\ facts[2].riskFactors = Arr(<<RiskR, RiskS>>)
                /\ facts[1].monthlyIncome = Num(1000)
                /\ facts[2].monthlyIncome = Num(3000))
                    => /\ out = <<RiskR, RiskS>>
                       /\ combined.financialMetrics.m.monthlyIncome = Num(2000)

\* C10 witness: the lists ['s','r','s'] and ['r','s'] were combined to ['s','r']
C10_Witness ==
    /\ cPc = "combined"
    /\ Len(facts) = 2
    /\ facts[1].riskFactors = Arr(<<RiskS, RiskR, RiskS>>)
    /\ facts[2].riskFactors = Arr(<<RiskR, RiskS>>)
    /\ combined.riskFactors = Arr(<<RiskS, RiskR>>)

\* -------------------------------------------------------- orchestrator claims
\* fallbackRisk of the claim, on the sums: mean < 1.5 iff 2R < 3n, mean >= 2.5 iff 2R >= 5n
ClaimedRisk ==
    IF 2 * TotalRiskFactors < 3 * Len(records) THEN "Low"
    ELSE IF 2 * TotalRiskFactors < 5 * Len(records) THEN "Medium"
    ELSE "High"

\* fallbackConfidence of the claim: clamp(75 + min(2n, 10) - 15e, 50, 95)
ClaimedConfidence ==
    LET n == Len(records)
        e == Cardinality({i \in 1..n : records[i].error # Undefined})
        c == 75 + (IF 2 * n < 10 THEN 2 * n ELSE 10) - 15 * e
    IN  IF c < 50 THEN 50 ELSE IF c > 95 THEN 95 ELSE c

C4_UnparsableReplyFallsBack ==
    (aPc = "done" /\ outcome.kind = "prose") =>
        /\ result.recommendation = generateFallbackRecommendation(records)
        /\ result.modelInfo.analysisModel = Str(<<"fallback-rules">>)
        /\ result.modelInfo.error # Undefined

\* ------------------------------------------------------- /api/process harness
\* uploaded files: a PDF, an image, and a file of a type that yields no image
FileKinds ==
    {[originalName |-> <<"Bank", "-", "2024.pdf">>, mimetype |-> "application/pdf"],
     [originalName |-> <<"scan.png">>, mimetype |-> "image/png"],
     [originalName |-> <<"income", ".txt">>, mimetype |-> "text/plain"]}

FileLists == UNION {[1..n -> FileKinds] : n \in 0..MaxFiles}

\* convert.getInfo(): the number of pages of a PDF
PageCounts == {1, 2}

\* objects recovered from the vision model's answer: a well-formed one, and one
\* whose riskFactors is a number
VisionObjects ==
    {Fact(Undefined, Num(3000), Undefined, Arr(<<RiskR>>)),
     Fact(Str(<<"invoice">>), Undefined, Num(500), Num(1))}

\* Math.round((Date.now() - startTime) / 1000)
ElapsedSeconds == {0, 3}

ProcessReasonerObjects == {ReasonerObject(Num(720), Str(<<"Low">>), Num(85))}

IsPdf(file) == file.mimetype = "application/pdf"

\* file.mimetype.startsWith('image/')
IsImage(file) == file.mimetype \in {"image/png", "image/jpeg"}

ProcessInit ==
    /\ hPc = "idle"
    /\ files = <<>>
    /\ response = NoResponse
    /\ DocumentIdle
    /\ RestIdle
    /\ records = <<>>
    /\ SanitizeIdle
    /\ FallbackIdle
    /\ CombineIdle
    /\ AnalysisIdle

\* lines 83-93: the request body holds a list of files
ReceiveRequest(kinds) ==
    /\ hPc = "idle"
    /\ files' = [i \in 1..Len(kinds) |->
                    File(i, kinds[i].originalName, kinds[i].mimetype)]
    /\ hPc' = "processing"
    /\ UNCHANGED <<restVars, response, docVars, records, sanVars, fbVars, cmbVars, anVars>>

\* lines 85-87: the request body holds no list
ReceiveInvalid ==
    /\ hPc = "idle"
    /\ response' = [status |-> 400, success |-> FALSE,
                    error |-> <<"Invalid files data">>, details |-> <<>>]
    /\ hPc' = "responded"
    /\ UNCHANGED <<restVars, files, docVars, records, sanVars, fbVars, cmbVars, anVars>>

InDocument(at) ==
    /\ hPc = "processing"
    /\ fileIx <= Len(files)
    /\ dPc = at

\* the try block ends with an error: control passes to the finally block
Throw(message) ==
    /\ pending' = Thrown(message)
    /\ dPc' = "finally"
    /\ UNCHANGED <<restVars, fileIx, images, extractedDataArray, cleaned, hPc, files, response,
                   records, sanVars, fbVars, cmbVars, anVars>>

\* line 46
EnsureDir ==
    /\ InDocument("start")
    /\ dPc' = "convert"
    /\ UNCHANGED <<restVars, fileIx, images, extractedDataArray, pending, cleaned, hPc, files,
                   response, records, sanVars, fbVars, cmbVars, anVars>>

EnsureDirFails ==
    /\ InDocument("start")
    /\ Throw(<<"EACCES: permission denied, mkdir">>)

\* lines 50-57: images of the file
Convert(n) ==
    /\ InDocument("convert")
    /\ images' = IF IsPdf(files[fileIx]) THEN n
                 ELSE IF IsImage(files[fileIx]) THEN 1 ELSE 0
    /\ dPc' = "extract"
    /\ UNCHANGED <<restVars, fileIx, extractedDataArray, pending, cleaned, hPc, files, response,
                   records, sanVars, fbVars, cmbVars, anVars>>

\* lines 192-205 and 227-230: the conversion raised
ConvertFails ==
    /\ InDocument("convert")
    /\ IsPdf(files[fileIx]) \/ IsImage(files[fileIx])
    /\ Throw(IF IsPdf(files[fileIx])
             THEN <<"Failed to convert PDF to images: ", "No valid images were generated from PDF">>
             ELSE <<"Failed to process image: ", "Input file is missing">>)

\* lines 64-71: one image is read and sent to the vision model
ExtractImage(found, json) ==
    /\ InDocument("extract")
    /\ Len(extractedDataArray) < images
    /\ extractedDataArray' =
        Append(extractedDataArray,
               extractFinancialData(found, json,
                                    determineDocumentType(files[fileIx].originalName)))
    /\ UNCHANGED <<restVars, fileIx, dPc, images, pending, cleaned, hPc, files, response,
                   records, sanVars, fbVars, cmbVars, anVars>>

\* lines 68-69: reading the image or the vision model's call raised
ExtractFails(message) ==
    /\ InDocument("extract")
    /\ Len(extractedDataArray) < images
    /\ Throw(message)

\* lines 73-84
ReturnDocument(seconds) ==
    /\ InDocument("extract")
    /\ Len(extractedDataArray) = images
    /\ pending' = CombineAndReturn(files[fileIx], extractedDataArray, images, seconds)
    /\ dPc' = "finally"
    /\ UNCHANGED <<restVars, fileIx, images, extractedDataArray, cleaned, hPc, files, response,
                   records, sanVars, fbVars, cmbVars, anVars>>

\* lines 86-93, then lines 18-34 of the caller: fs.remove(tempDir) is called and
\* succeeds or fails, and processDocuments pushes the document's result
RemoveTempDir(removed) ==
    /\ InDocument("finally")
    /\ cleaned' = cleaned \cup {fileIx}
    /\ records' = PushCompletion(records, files[fileIx], AfterRemove(pending, removed))
    /\ fileIx' = fileIx + 1
    /\ dPc' = "start"
    /\ images' = 0
    /\ extractedDataArray' = <<>>
    /\ pending' = NoPending
    /\ UNCHANGED <<restVars, hPc, files, response, sanVars, fbVars, cmbVars, anVars>>

\* line 37 and line 96: processDocuments returns, analyzeCredit is called
ReturnResults ==
    /\ hPc = "processing"
    /\ fileIx > Len(files)
    /\ hPc' = "analyzing"
    /\ aPc' = "input"
    /\ UNCHANGED <<restVars, summary, outcome, result, reasonerCalls, fallbackRuns, files, response,
                   docVars, records, sanVars, fbVars, cmbVars>>

\* lines 98-128: the uploads are removed (failures ignored) and the response is sent
Respond ==
    /\ hPc = "analyzing"
    /\ aPc = "done"
    /\ response' =
        IF result.raised
        THEN [status |-> 500, success |-> FALSE,
              error |-> <<"Document processing failed">>,
              details |-> <<"rf.toLowerCase is not a function">>]
        ELSE [status |-> 200, success |-> TRUE, error |-> <<>>, details |-> <<>>]
    /\ hPc' = "responded"
    /\ UNCHANGED <<restVars, files, docVars, records, sanVars, fbVars, cmbVars, anVars>>

ProcessNext ==
    \/ \E kinds \in FileLists : ReceiveRequest(kinds)
    \/ ReceiveInvalid
    \/ EnsureDir
    \/ EnsureDirFails
    \/ \E n \in PageCounts : Convert(n)
    \/ ConvertFails
    \/ \E json \in VisionObjects : ExtractImage(TRUE, json)
    \/ ExtractImage(FALSE, EmptyFact)
    \/ ExtractFails(<<"Ollama API request failed: ", "timeout of 120000ms exceeded">>)
    \/ \E seconds \in ElapsedSeconds : ReturnDocument(seconds)
    \/ \E removed \in BOOLEAN : RemoveTempDir(removed)
    \/ ReturnResults
    \/ AnalyzeStart
    \/ ReasonerRaises(<<"timeout of 180000ms exceeded">>)
    \/ \E object \in ProcessReasonerObjects : ReasonerReplies("json", object)
    \/ Respond

SpecProcess == ProcessInit /\ [][ProcessNext]_vars

\* the confidence the claim counts for a record: 80 only when it is absent
ClaimedConfidenceOf(r) ==
    IF r.extractedData.confidence = Undefined THEN Num(80) ELSE r.extractedData.confidence

RECURSIVE SumClaimedConfidence(_)
SumClaimedConfidence(results) ==
    IF results = <<>> THEN Num(0)
    ELSE NumAdd(ClaimedConfidenceOf(Head(results)), SumClaimedConfidence(Tail(results)))

\* C11: averageConfidence is the rounded mean of the records' confidence values, an
\* absent confidence counting as 80 and a present 0 as 0, and it is 0 for no records.
C11_AverageConfidence ==
    (aPc # "input") =>
        summary.averageConfidence =
            IF records = <<>> THEN Num(0)
            ELSE MathRound(NumDiv(SumClaimedConfidence(records), Len(records)))

\* ---------------------------------------------------- document processor claims
\* the record the claim expects for a document whose processing raised
IsErrorRecord(r) ==
    /\ r.error.t = "string"
    /\ Len(r.error.s) > 0
    /\ r.extractedData.documentType = Str(<<"error">>)
    /\ r.imageCount = 0
    /\ r.processingTime = 0

\* results exist for exactly the files the loop has finished, in the files' order
OneResultPerFile ==
    /\ hPc = "processing" => Len(records) = fileIx - 1
    /\ hPc = "analyzing" => Len(records) = Len(files)
    /\ \A i \in 1..Len(records) :
        /\ i <= Len(files)
        /\ records[i].fileId = files[i].id
        /\ records[i].fileName = files[i].originalName
        /\ records[i].error # Undefined => IsErrorRecord(records[i])

\* a document that ends: an error gives the error record, a value is pushed as it is,
\* and the loop goes on to the next file
DocumentEnds ==
    (hPc = "processing" /\ dPc = "finally" /\ dPc' # "finally") =>
        /\ Len(records') = Len(records) + 1
        /\ SubSeq(records', 1, Len(records)) = records
        /\ fileIx' = fileIx + 1
        /\ hPc' = "processing"
        /\ pending.kind = "error" =>
            /\ IsErrorRecord(records'[fileIx])
            /\ records'[fileIx].error = Str(pending.message)
        /\ pending.kind = "value" =>
            /\ records'[fileIx].error = Undefined
            /\ records'[fileIx].extractedData = pending.value.extractedData
            /\ records'[fileIx].imageCount = pending.value.imageCount
            /\ records'[fileIx].processingTime = pending.value.processingTime

\* C12: processDocuments never short-circuits: whatever documents fail, it returns one
\* result per file in input order; a document whose processing raised is an 'error'
\* record with its message, imageCount 0 and processingTime 0, and the documents
\* before and after it are processed normally.
C12_OneResultPerFile == []OneResultPerFile /\ [][DocumentEnds]_vars

\* C12 witness: the first of two documents raised and the second was processed
C12_Witness ==
    /\ hPc = "analyzing"
    /\ Len(files) = 2
    /\ Len(records) = 2
    /\ IsErrorRecord(records[1])
    /\ records[2].error = Undefined
    /\ records[2].imageCount = 2
    /\ records[2].extractedData.riskFactors = Arr(<<RiskR>>)

\* no document of the request was processed: every one failed, or there was none
NothingProcessed == \A i \in 1..Len(records) : records[i].error # Undefined

\* C13: when no document of a request could be processed (all failed, or the list is
\* empty), the request ends in a structured error response with diagnostic detail,
\* never in a success response carrying a credit recommendation.
C13_NothingProcessedIsError ==
    (hPc = "responded" /\ aPc = "done" /\ NothingProcessed) =>
        /\ ~response.success
        /\ response.status >= 400
        /\ Len(response.error) > 0
        /\ Len(response.details) > 0

\* C14: every result analyzeCredit returns, on the reasoner path and on the fallback
\* path, holds a recommendation, an overallRisk of Low, Medium or High, an integer
\* confidence in 0..100, the document summary and the model provenance.
C14_ResultComplete ==
    (aPc = "done" /\ ~result.raised) =>
        /\ result.recommendation # EmptyObject
        /\ result.overallRisk \in validRiskLevels
        /\ result.confidence.t = "number"
        /\ result.confidence.d = 1
        /\ result.confidence.n \in 0..100
        /\ result.documentSummary.present
        /\ result.modelInfo.analysisModel # Undefined

\* ------------------------------------------------- sanitizer output claims
\* a string with a character that is not whitespace
NonBlank(v) == v.t = "string" /\ \E i \in 1..Len(v.s) : v.s[i] # " "

\* a non-empty string without leading or trailing whitespace
TrimmedString(v) ==
    /\ v.t = "string"
    /\ Len(v.s) > 0
    /\ v.s[1] # " "
    /\ v.s[Len(v.s)] # " "

\* s without its leading and trailing whitespace equals t
IsTrimOf(t, s) ==
    \E i \in 1..Len(s) : \E j \in i..Len(s) :
        /\ t = SubSeq(s, i, j)
        /\ \A k \in 1..Len(s) : (k < i \/ k > j) => s[k] = " "

\* the list the claim expects for a raw list value and a default text
ClaimedList(out, in, default) ==
    LET valid == IF in.t = "array" THEN {j \in 1..Len(in.a) : NonBlank(in.a[j])} ELSE {}
    IN  /\ out.t = "array"
        /\ Len(out.a) \in 1..6
        /\ \A i \in 1..Len(out.a) : TrimmedString(out.a[i])
        /\ IF valid = {} THEN out.a = <<Str(default)>>
           ELSE /\ Len(out.a) = (IF Cardinality(valid) < 6 THEN Cardinality(valid) ELSE 6)
                /\ \A i \in 1..Len(out.a) :
                    \E j \in valid :
                        /\ Cardinality({h \in valid : h < j}) = i - 1
                        /\ IsTrimOf(out.a[i].s, in.a[j].s)

\* C15: both sanitized string lists hold 1 to 6 trimmed non-empty strings, the kept
\* elements in input order; an input that is no list or has no valid element gives
\* the one-element default list of the field.
C15_SanitizedLists ==
    HasSanitized =>
        /\ ClaimedList(sanitized.keyFactors, raw.keyFactors,
                       <<"Positive factor identified">>)
        /\ ClaimedList(sanitized.improvementSuggestions, raw.improvementSuggestions,
                       <<"Consider improvement">>)

\* C15 witness: of ['a', 5, ' b ', ' '] the strings 'a' and 'b' are kept, and a
\* list of one number gives the default suggestion
C15_Witness ==
    /\ sPc = "sanitized"
    /\ raw.keyFactors = Arr(<<Str(<<"a">>), Num(5), Str(<<" ", "b", " ">>), Str(<<" ">>)>>)
    /\ raw.improvementSuggestions = Arr(<<Num(5)>>)
    /\ sanitized.keyFactors = Arr(<<Str(<<"a">>), Str(<<"b">>)>>)
    /\ sanitized.improvementSuggestions = Arr(<<Str(<<"Consider improvement">>)>>)

\* C15 witness: a list of seven strings is cut to its first six
C15_WitnessCapped ==
    /\ sPc = "sanitized"
    /\ raw.keyFactors = Arr(LongList)
    /\ sanitized.keyFactors = Arr(SubSeq(LongList, 1, 6))

\* the keys of the record sanitizeCreditRecommendation builds
SanitizedKeys ==
    {"score", "rating", "riskLevel", "recommendation", "keyFactors",
     "improvementSuggestions", "maxCreditLimit", "interestRate", "reasoning",
     "analysisModel", "generatedAt"}

\* C16: sanitizing never raises: for every raw input the reasoner path can deliver
\* (absent, null, numeric, string, list or nested-object values in any field) it
\* returns a record in which every field has a value.
C16_SanitizeNeverRaises ==
    (sPc # "input") =>
        /\ sPc # "raised"
        /\ \A k \in SanitizedKeys : sanitized[k] \notin {Undefined, Null}

\* C17: sanitize of the empty object yields score 650, rating 'Fair', riskLevel
\* 'Medium', maxCreditLimit 10000, interestRate 15.0, recommendation 'No recommendation
\* available', reasoning 'Analysis completed' and the two one-element default lists.
C17_EmptyObjectDefaults ==
    (HasSanitized /\ raw = EmptyObject) =>
        /\ sanitized.score = Num(650)
        /\ sanitized.rating = Str(<<"Fair">>)
        /\ sanitized.riskLevel = Str(<<"Medium">>)
        /\ sanitized.maxCreditLimit = Num(10000)
        /\ sanitized.interestRate = Num(15)
        /\ sanitized.recommendation = Str(<<"No recommendation available">>)
        /\ sanitized.reasoning = Str(<<"Analysis completed">>)
        /\ sanitized.keyFactors = Arr(<<Str(<<"Positive factor identified">>)>>)
        /\ sanitized.improvementSuggestions = Arr(<<Str(<<"Consider improvement">>)>>)

\* C17 witness: the empty object has been sanitized
C17_Witness ==
    /\ sPc = "sanitized"
    /\ raw = EmptyObject
    /\ sanitized # EmptyObject
    /\ sanitized.generatedAt = IsoString(0)

\* C18: the sanitized rating is the raw rating when that is one of the five allowed
\* strings and 'Fair' otherwise, the sanitized riskLevel the raw riskLevel when that is
\* one of the three allowed strings and 'Medium' otherwise; neither depends on the
\* score, so score 300 with rating 'Excellent' passes through unchanged.
C18_EnumsPassThrough ==
    HasSanitized =>
        /\ sanitized.rating =
            IF \E w \in {"Excellent", "Good", "Fair", "Poor", "Very Poor"} :
                    raw.rating = Str(<<w>>)
            THEN raw.rating ELSE Str(<<"Fair">>)
        /\ sanitized.riskLevel =
            IF \E w \in {"Low", "Medium", "High"} : raw.riskLevel = Str(<<w>>)
            THEN raw.riskLevel ELSE Str(<<"Medium">>)

\* C18 witness: a raw score below the range is clamped to 300 and keeps 'Excellent'
C18_Witness ==
    /\ sPc = "sanitized"
    /\ raw.creditScore = Num(-5)
    /\ raw.rating = Str(<<"Excellent">>)
    /\ sanitized.score = Num(300)
    /\ sanitized.rating = Str(<<"Excellent">>)

\* C18 witness: a rating in the wrong case is replaced, an allowed risk level is kept
C18_WitnessReplaced ==
    /\ sPc = "sanitized"
    /\ raw.rating = Str(<<"excellent">>)
    /\ raw.riskLevel = Str(<<"High">>)
    /\ sanitized.rating = Str(<<"Fair">>)
    /\ sanitized.riskLevel = Str(<<"High">>)

\* C19: calculateFallbackConfidence is clamp(75 + min(2n, 10) - 15e, 50, 95) for n
\* documents of which e carry a processing error, always an integer in [50,95];
\* 3 documents with 1 error give 66.
C19_FallbackConfidence ==
    (fPc = "rated") =>
        /\ fallbackConfidence = Num(ClaimedConfidence)
        /\ fallbackConfidence.t = "number"
        /\ fallbackConfidence.d = 1
        /\ fallbackConfidence.n \in 50..95
        /\ (/\ Len(records) = 3
            /\ Cardinality({i \in 1..3 : records[i].error # Undefined}) = 1)
                => fallbackConfidence = Num(66)

\* C19 witness: three documents, the second with a processing error, give 66
C19_Witness ==
    /\ fPc = "rated"
    /\ Len(records) = 3
    /\ {i \in 1..3 : records[i].error # Undefined} = {2}
    /\ fallbackConfidence = Num(66)

\* C19 witness: the bonus stops at +10 (seven documents give 85)
C19_WitnessCapped ==
    /\ fPc = "rated"
    /\ Len(records) = 7
    /\ \A i \in 1..7 : records[i].error = Undefined
    /\ fallbackConfidence = Num(85)

\* C19 witness: the result stops at 50 (three failed documents)
C19_WitnessFloor ==
    /\ fPc = "rated"
    /\ Len(records) = 3
    /\ \A i \in 1..3 : records[i].error # Undefined
    /\ fallbackConfidence = Num(50)

\* fs.remove has been called for exactly the documents that have ended, and a try
\* block that has ended, with a value or an error, is followed by the finally block
TempDirsReleased ==
    /\ cleaned = 1..Len(records)
    /\ pending.kind # "none" => dPc = "finally"
    /\ dPc = "finally" => pending.kind # "none"

\* a result is pushed only out of the finally block, once fs.remove has been called;
\* the result is the one the try block ended with, whether fs.remove succeeded or
\* failed, and the loop goes on
RemovalKeepsOutcome ==
    /\ records' # records =>
        /\ dPc = "finally"
        /\ fileIx \in cleaned'
        /\ Len(records') = fileIx
        /\ fileIx' = fileIx + 1
        /\ hPc' = "processing"
        /\ records'[fileIx].error =
            (IF pending.kind = "error" THEN Str(pending.message) ELSE Undefined)
        /\ pending.kind = "value" =>
            records'[fileIx] = ResultFor(files[fileIx], pending.value)
    /\ (dPc = "finally" /\ dPc' # "finally") => records' # records

\* C20: the temp directory of every document is released on every path: its removal is
\* attempted after processing ends, whether processing succeeded or raised at any step,
\* and a failure of the removal neither changes the document's outcome nor ends the batch.
C20_TempDirAlwaysRemoved == []TempDirsReleased /\ [][RemovalKeepsOutcome]_vars

\* C20 witness: the vision model's call failed for an image of the first document,
\* the directory's removal was attempted and the second document is being processed
C20_Witness ==
    /\ hPc = "processing"
    /\ Len(files) = 2
    /\ fileIx = 2
    /\ dPc = "extract"
    /\ cleaned = {1}
    /\ records[1].error =
        Str(<<"Ollama API request failed: ", "timeout of 120000ms exceeded">>)

\* ------------------------------------------------------ orchestrator order claims
\* the reasoner call rejected: the request failed, or the response held no text
ReasonerFailed == outcome.kind \in {"error", "missing"}

\* the counters at each position of analyzeCredit, the fallback's cause left open
CallOrder ==
    /\ aPc \in {"off", "input"} => (reasonerCalls = 0 /\ fallbackRuns = 0)
    /\ aPc = "awaiting" =>
        /\ reasonerCalls = 1
        /\ fallbackRuns = 0
        /\ summary = BuildSummary(records)
    /\ aPc = "done" =>
        /\ reasonerCalls = 1
        /\ fallbackRuns \in {0, 1}
        /\ result.modelInfo.analysisModel = Str(<<"deepseek-r1:8b">>) => fallbackRuns = 0

\* C21: within one analyzeCredit run the reasoner is invoked exactly once, after the
\* summary has been built, and never again; the fallback scorer runs only after that
\* invocation has failed, never before it and never on the success path.
C21_ReasonerCalledOnce ==
    /\ CallOrder
    /\ (aPc = "done" /\ fallbackRuns = 1) => ReasonerFailed

\* ------------------------------------------------------- extractJSON harness
MaxPieces == 3

\* {"a": 1}
FlatObject == <<LBrace, Quoted("a"), Colon, Space, Word("1"), RBrace>>

\* {"a": {"b": 1}}
NestedObject ==
    <<LBrace, Quoted("a"), Colon, Space,
      LBrace, Quoted("b"), Colon, Space, Word("1"), RBrace, RBrace>>

\* {"a":{"b":1}, "c":{"d":2}}
SiblingObjects ==
    <<LBrace, Quoted("a"), Colon, LBrace, Quoted("b"), Colon, Word("1"), RBrace, Comma, Space,
      Quoted("c"), Colon, LBrace, Quoted("d"), Colon, Word("2"), RBrace, RBrace>>

\* the nested object printed on five lines
PrettyObject ==
    <<LBrace, Newline,
      Space, Quoted("a"), Colon, Space, LBrace, Newline,
      Space, Space, Quoted("b"), Colon, Space, Word("1"), Newline,
      Space, RBrace, Newline,
      RBrace>>

\* {a: 1,}
BareObject == <<LBrace, Word("a"), Colon, Space, Word("1"), Comma, RBrace>>

\* the pieces a model's text is put together from; none ends in a word
TextPieces ==
    { <<Word("Sure"), Newline>>,
      <<Word("Result"), Colon, Space>>,
      <<Space, Word("Thanks"), Newline>>,
      <<Word("42"), Newline>>,
      <<Fence, Word("json"), Newline>>,
      <<Newline, Fence, Newline>>,
      <<LBrace>>,
      <<RBrace>>,
      FlatObject, NestedObject, SiblingObjects, PrettyObject, BareObject }

ExtractInit ==
    /\ xPc = "input"
    /\ replyText = TextInput(<<>>)
    /\ pieces = 0
    /\ extractedJSON = Completion("none", ParsedNull)
    /\ ClientIdle
    /\ records = <<>>
    /\ ProcessIdle
    /\ SanitizeIdle
    /\ FallbackIdle
    /\ CombineIdle
    /\ AnalysisIdle

\* the model's text grows by one piece
AppendPiece(piece) ==
    /\ xPc = "input"
    /\ replyText.type = "string"
    /\ pieces < MaxPieces
    /\ replyText' = TextInput(replyText.tokens \o piece)
    /\ pieces' = pieces + 1
    /\ UNCHANGED <<xPc, extractedJSON, hookVars, sanVars, fbVars, records, cmbVars, anVars,
                   procVars>>

\* the response carries no text
LoseText(type) ==
    /\ xPc = "input"
    /\ pieces = 0
    /\ replyText.type = "string"
    /\ replyText' = NoText(type)
    /\ UNCHANGED <<xPc, pieces, extractedJSON, hookVars, sanVars, fbVars, records, cmbVars,
                   anVars, procVars>>

\* extractJSON(replyText), lines 75-158
ExtractJSON ==
    /\ xPc = "input"
    /\ extractedJSON' = extractJSONText(replyText)
    /\ xPc' = "extracted"
    /\ UNCHANGED <<replyText, pieces, hookVars, sanVars, fbVars, records, cmbVars, anVars,
                   procVars>>

ExtractNext ==
    \/ \E piece \in TextPieces : AppendPiece(piece)
    \/ \E type \in {"undefined", "object", "number"} : LoseText(type)
    \/ ExtractJSON

SpecExtract == ExtractInit /\ [][ExtractNext]_vars

\* -------------------------------------------------------- extractJSON claims
HasBrace(ts) == \E i \in 1..Len(ts) : ts[i].c \in {"{", "}"}

\* none of the four strategies parses anything out of the text
AllStrategiesFail(ts) ==
    /\ Strategy1(ts).kind = "caught"
    /\ Strategy2(ts).kind = "caught"
    /\ Strategy3(ts).kind = "caught"
    /\ Strategy4(ts).kind = "caught"

\* extractJSON returns, and returns null for an argument that is no text or is empty
\* and for a text on which every strategy fails
ExtractReturns ==
    xPc = "extracted" =>
        /\ extractedJSON.kind = "value"
        /\ (replyText.type # "string" \/ replyText.tokens = <<>>) =>
                extractedJSON.x = ParsedNull
        /\ (replyText.type = "string" /\ AllStrategiesFail(replyText.tokens)) =>
                extractedJSON.x = ParsedNull

\* C22: extractJSON never raises: for an argument that is no string or is empty, for
\* a text holding no braces and for a text on which all four strategies fail it
\* returns null as a value.
C22_ExtractNeverRaises ==
    /\ ExtractReturns
    /\ (xPc = "extracted" /\ ~HasBrace(replyText.tokens)) => extractedJSON.x = ParsedNull

\* the position of the "}" that closes the "{" at position i, or 0
RECURSIVE MatchingBrace(_, _, _)
MatchingBrace(ts, j, depth) ==
    IF j > Len(ts) THEN 0
    ELSE IF ts[j].c = "{" THEN MatchingBrace(ts, j + 1, depth + 1)
    ELSE IF ts[j].c = "}"
    THEN IF depth = 1 THEN j ELSE MatchingBrace(ts, j + 1, depth - 1)
    ELSE MatchingBrace(ts, j + 1, depth)

\* the balanced block that starts at position i
BlockAt(ts, i) == SubSeq(ts, i, MatchingBrace(ts, i + 1, 1))

\* a balanced brace-delimited block that is a valid JSON object starts at position i
ValidBlockAt(ts, i) ==
    /\ ts[i].c = "{"
    /\ MatchingBrace(ts, i + 1, 1) # 0
    /\ JSONParse(BlockAt(ts, i)).ok

\* the object of the first such block
FirstValidObject(ts) ==
    LET i == CHOOSE i \in 1..Len(ts) :
                ValidBlockAt(ts, i) /\ \A h \in 1..(i - 1) : ~ValidBlockAt(ts, h)
    IN  JSONParse(BlockAt(ts, i)).x

\* C25: when the text holds a balanced brace-delimited block that is a valid JSON
\* object, extractJSON returns the object of the first such block with its values
\* unaltered, nested objects included: never a nested object in place of the enclosing
\* one, never a number turned into a string.
C25_FirstBalancedObject ==
    (/\ xPc = "extracted"
     /\ replyText.type = "string"
     /\ \E i \in 1..Len(replyText.tokens) : ValidBlockAt(replyText.tokens, i)) =>
        extractedJSON = Completion("value", FirstValidObject(replyText.tokens))

\* ------------------------------------------------- orchestrator success claims
\* analyzeCredit returned from its try block with the reasoner's parsed object
OnSuccessPath ==
    /\ aPc = "done"
    /\ outcome.kind = "json"
    /\ ~result.raised
    /\ result.modelInfo.analysisModel = Str(<<"deepseek-r1:8b">>)

\* the reasoner's own risk level is the result's overallRisk
ReasonerRiskKept ==
    (OnSuccessPath /\ outcome.object.riskLevel \in validRiskLevels) =>
        result.overallRisk = outcome.object.riskLevel

\* C23: on the reasoner-success path overallRisk and confidence are the reasoner's own
\* values whenever it supplied them: a numeric confidence in its response is the
\* result's confidence, and the fallback risk and confidence stand in only for an
\* absent field.
C23_ReasonerValuesKept ==
    /\ ReasonerRiskKept
    /\ (OnSuccessPath /\ IsNum(outcome.object.confidence)) =>
            result.confidence = outcome.object.confidence

\* ------------------------------------------------------- pipeline scoring claims
\* the record was combined from two or more images and holds no recognized financial
\* field with a numeric value
NoMetricSupplied(r) ==
    /\ r.imageCount >= 2
    /\ \A f \in FinFieldSet : ~IsNum(r.extractedData.keyInformation[f])

\* C24: a record carries financial metrics only if a recognized field is numeric:
\* documents combined from two or more images of which none supplied a recognized
\* numeric field are scored as having no financial metrics, with adjustment 0 and
\* riskLevel Medium, not with the lowest tier's -50 and High.
C24_EmptyMetricsNotScored ==
    (/\ aPc = "done"
     /\ result.modelInfo.analysisModel = Str(<<"fallback-rules">>)
     /\ records # <<>>
     /\ \A i \in 1..Len(records) : NoMetricSupplied(records[i])) =>
        /\ result.recommendation.score = Num(ClampScore(650 - 15 * TotalRiskFactors))
        /\ result.recommendation.riskLevel = Str(<<"Medium">>)

\* ------------------------------------------------------- sanitizer zero claims
\* v held to the interval [lo, hi]
ClaimedClamp(v, lo, hi) ==
    IF NumLT(v, Num(lo)) THEN Num(lo) ELSE IF NumLT(Num(hi), v) THEN Num(hi) ELSE v

NonZeroNumber(v) == IsNum(v) /\ v # Num(0)

\* C26: the sanitizer treats a raw numeric 0 as absent: creditScore 0 gives score 650,
\* maxCreditLimit 0 gives 10000 and interestRate 0 gives 15.0; every other numeric
\* value is clamped as usual.
C26_ZeroIsAbsent ==
    HasSanitized =>
        /\ raw.creditScore = Num(0) => sanitized.score = Num(650)
        /\ raw.maxCreditLimit = Num(0) => sanitized.maxCreditLimit = Num(10000)
        /\ raw.interestRate = Num(0) => sanitized.interestRate = Num(15)
        /\ NonZeroNumber(raw.creditScore) =>
                sanitized.score = ClaimedClamp(raw.creditScore, 300, 850)
        /\ NonZeroNumber(raw.maxCreditLimit) =>
                sanitized.maxCreditLimit =
                    (IF NumLT(raw.maxCreditLimit, Num(0)) THEN Num(0) ELSE raw.maxCreditLimit)
        /\ NonZeroNumber(raw.interestRate) =>
                sanitized.interestRate = ClaimedClamp(raw.interestRate, 0, 50)

\* C26 witness: a creditScore of 0 and an interest rate of 700 were sanitized to 650
\* and 50
C26_Witness ==
    /\ sPc = "sanitized"
    /\ raw.creditScore = Num(0)
    /\ raw.interestRate = Num(700)
    /\ sanitized.score = Num(650)
    /\ sanitized.interestRate = Num(50)

\* C26 witness: a credit limit of 0 became 10000 and a creditScore of -5 became 300
C26_WitnessLimit ==
    /\ sPc = "sanitized"
    /\ raw.maxCreditLimit = Num(0)
    /\ raw.creditScore = Num(-5)
    /\ sanitized.maxCreditLimit = Num(10000)
    /\ sanitized.score = Num(300)

\* ------------------------------------------------------- single fact claims
\* the record of a single fact: its type, the fact itself and its risk factors
SingleFactShape ==
    (cPc = "combined" /\ Len(facts) = 1) =>
        /\ combined.documentType =
            (IF facts[1].documentType # Undefined THEN facts[1].documentType
             ELSE declaredType)
        /\ combined.keyInformation = facts[1]
        /\ combined.riskFactors =
            (IF facts[1].riskFactors = Undefined THEN Arr(<<>>) ELSE facts[1].riskFactors)

\* the recognized fields whose value in the fact is a number
NumericFields(fact) == {f \in FinFieldSet : IsNum(fact[f])}

\* C27: for exactly one extracted fact, documentType is the fact's own type if present
\* and the declared type otherwise, keyInformation is the fact, riskFactors is the
\* fact's list (empty if absent), and financialMetrics holds exactly the recognized
\* fields whose value is a number, a 0 included, and is absent when there is none.
C27_SingleFactRecord ==
    /\ SingleFactShape
    /\ (cPc = "combined" /\ Len(facts) = 1) =>
        IF NumericFields(facts[1]) = {}
        THEN combined.financialMetrics.kind # "object"
        ELSE /\ combined.financialMetrics.kind = "object"
             /\ \A f \in FinFieldSet :
                    combined.financialMetrics.m[f] =
                        (IF f \in NumericFields(facts[1]) THEN facts[1][f] ELSE Undefined)

\* ---------------------------------------------------- extraction failure claims
ExtractorMessage == <<"Ollama API request failed: ", "timeout of 120000ms exceeded">>

\* the extractor raised on an image of the current document
ExtractorRaised ==
    /\ hPc = "processing"
    /\ dPc = "finally"
    /\ pending = Thrown(ExtractorMessage)

\* the record of a document on which the extractor raised is the error record
FailedDocumentsAreErrorRecords ==
    \A i \in 1..Len(records) :
        records[i].error = Str(ExtractorMessage) =>
            /\ records[i].fileId = files[i].id
            /\ records[i].extractedData.documentType = Str(<<"error">>)
            /\ records[i].extractedData.keyInformation = EmptyFact
            /\ records[i].extractedData.riskFactors =
                    Arr(<<Str(<<"Document", " ", "processing", " ", "failed">>)>>)
            /\ records[i].extractedData.confidence = Num(0)
            /\ records[i].imageCount = 0

\* once the extractor has raised, the document's next step is its error record and
\* the batch goes on with the next document; no result pushed earlier changes
FailureStaysLocal ==
    /\ ExtractorRaised =>
        /\ extractedDataArray' = <<>>
        /\ Len(records') = Len(records) + 1
        /\ records'[fileIx].error = Str(ExtractorMessage)
        /\ fileIx' = fileIx + 1
        /\ hPc' = "processing"
        /\ dPc' = "start"
    /\ hPc = "processing" =>
        /\ Len(records') >= Len(records)
        /\ SubSeq(records', 1, Len(records)) = records

\* C28: if the extractor raises on one image of a document, that document alone is
\* affected: its later images are never sent to the extractor, the facts of its earlier
\* images are discarded, its result is the error record (documentType 'error',
\* riskFactors ['Document processing failed'], confidence 0, imageCount 0), and the
\* remaining documents of the batch are still processed.
C28_ExtractionFailureIsLocal == []FailedDocumentsAreErrorRecords /\ [][FailureStaysLocal]_vars

\* C28 witness: the extractor raised on an image of the first document and the second
\* document was then processed from its two images
C28_Witness ==
    /\ hPc = "analyzing"
    /\ Len(files) = 2
    /\ records[1].error = Str(ExtractorMessage)
    /\ records[1].imageCount = 0
    /\ records[2].error = Undefined
    /\ records[2].imageCount = 2

\* C28 witness: the extractor has just raised on the second of two images
C28_WitnessSecondImage ==
    /\ ExtractorRaised
    /\ images = 2
    /\ Len(extractedDataArray) = 1

\* ------------------------------------------------------- risk agreement claims
\* on the success path overallRisk is the sanitized recommendation's riskLevel
SuccessRiskAgrees ==
    (aPc = "done" /\ result.modelInfo.analysisModel = Str(<<"deepseek-r1:8b">>)) =>
        result.overallRisk = result.recommendation.riskLevel

\* C29: in every result analyzeCredit returns, on the success path and on the fallback
\* path, the top-level overallRisk equals recommendation.riskLevel.
C29_RiskLevelsAgree ==
    (aPc = "done" /\ ~result.raised) =>
        result.overallRisk = result.recommendation.riskLevel

\* ---------------------------------------------------------------------------
\* useFileProcessor: the client hook (part_005 lines 107-262) driven by the
\* App and FileUpload components
\* ---------------------------------------------------------------------------

MaxClientFiles == 3

ProcessorState(stage, progress) == [currentStage |-> stage, progress |-> progress]

\* setFiles(prev => prev.map(file => ({...file, status})))
WithStatus(list, status) == [i \in 1..Len(list) |-> status]

\* App: showResults = results && processorState.currentStage === 'completed'
showResults == analysisResults # "null" /\ processorState.currentStage = "completed"

\* what apiClient.uploadFiles may resolve with: a response with a files array,
\* a response without one, or an empty response
UploadOutcomes == {"files", "noFiles", "empty"}

\* what apiClient.processDocuments may resolve with: results holding a
\* recommendation and files, a response without results, or results lacking a
\* part
ProcessOutcomes == {"complete", "noResults", "incomplete"}

\* the messages apiClient rejects with: the server's error or the default of
\* the call (apiClient.ts lines 16-19 and 33-36), or that of a failed fetch
UploadRejections == {"Upload failed", "No files uploaded", "Failed to fetch"}

ProcessRejections == {"Processing failed", "Invalid files data", "Failed to fetch"}

\* !uploadResponse || !uploadResponse.files || !Array.isArray(uploadResponse.files)
InvalidUpload(answer) == answer # "files"

\* the message of the error the response validation throws, <<>> when it passes
ProcessFault(answer) ==
    IF answer = "noResults" THEN <<"Invalid processing answer format">>
    ELSE IF answer = "incomplete" THEN <<"Incomplete analysis results received">>
    ELSE <<>>

\* a catch block that sets no processorState, as that of the copy of the hook
\* at lines 1-106 which this one supersedes
FailedStateKept(reached) == reached

\* the catch block's setProcessorState (line 228), given the state the run had
\* reached
FailedState(reached) == ProcessorState("uploading", 0)

\* the catch block followed by the finally block
Catch(message, stagesSet) ==
    /\ uploaded' = WithStatus(uploaded, "error")
    /\ processorState' = FailedState(IF stagesSet = <<>> THEN processorState
                                     ELSE ProcessorState(stagesSet[Len(stagesSet)].currentStage,
                                                         stagesSet[Len(stagesSet)].progress))
    /\ stageLog' = stageLog \o [i \in 1..Len(stagesSet) |-> stagesSet[i].currentStage]
                            \o <<processorState'.currentStage>>
    /\ alerted' = message
    /\ isProcessing' = FALSE
    /\ kPc' = "idle"
    /\ UNCHANGED analysisResults

ClientInit ==
    /\ kPc = "idle"
    /\ uploaded = <<>>
    /\ isProcessing = FALSE
    /\ processorState = ProcessorState("uploading", 0)
    /\ analysisResults = "null"
    /\ uploadResponse = "none"
    /\ processResponse = "none"
    /\ stageLog = <<>>
    /\ alerted = <<>>
    /\ ExtractIdle
    /\ records = <<>>
    /\ ProcessIdle
    /\ SanitizeIdle
    /\ FallbackIdle
    /\ CombineIdle
    /\ AnalysisIdle

\* FileUpload is rendered, and its input enabled, only outside a run and
\* before results are shown; addFiles appends the files as pending
AddFiles(n) ==
    /\ kPc = "idle"
    /\ ~isProcessing /\ ~showResults
    /\ Len(uploaded) + n <= MaxClientFiles
    /\ uploaded' = uploaded \o [i \in 1..n |-> "pending"]
    /\ UNCHANGED <<kPc, isProcessing, processorState, analysisResults, uploadResponse,
                   processResponse, stageLog, alerted>>
    /\ UNCHANGED <<txtVars, sanVars, fbVars, records, cmbVars, anVars, procVars>>

\* the remove button of a listed file
RemoveFile(at) ==
    /\ kPc = "idle"
    /\ ~isProcessing /\ ~showResults
    /\ at \in 1..Len(uploaded)
    /\ uploaded[at] # "processing"
    /\ uploaded' = [i \in 1..(Len(uploaded) - 1) |->
                        IF i < at THEN uploaded[i] ELSE uploaded[i + 1]]
    /\ UNCHANGED <<kPc, isProcessing, processorState, analysisResults, uploadResponse,
                   processResponse, stageLog, alerted>>
    /\ UNCHANGED <<txtVars, sanVars, fbVars, records, cmbVars, anVars, procVars>>

\* startProcessing up to the first await; the button is shown when there is a
\* pending file and no run, and the handler returns at once on an empty list
StartProcessing ==
    /\ kPc = "idle"
    /\ ~isProcessing /\ ~showResults
    /\ \E i \in 1..Len(uploaded) : uploaded[i] = "pending"
    /\ Len(uploaded) # 0
    /\ isProcessing' = TRUE
    /\ analysisResults' = "null"
    /\ processorState' = ProcessorState("uploading", 10)
    /\ stageLog' = <<"uploading">>
    /\ uploaded' = WithStatus(uploaded, "processing")
    /\ uploadResponse' = "none"
    /\ processResponse' = "none"
    /\ alerted' = <<>>
    /\ kPc' = "upload"
    /\ UNCHANGED <<txtVars, sanVars, fbVars, records, cmbVars, anVars, procVars>>

\* apiClient.uploadFiles rejects; startProcessing runs to its end
UploadRejects(message) ==
    /\ kPc = "upload"
    /\ uploadResponse' = "rejected"
    /\ UNCHANGED processResponse
    /\ Catch(<<"File upload failed: ", message>>, <<>>)
    /\ UNCHANGED <<txtVars, sanVars, fbVars, records, cmbVars, anVars, procVars>>

\* apiClient.uploadFiles resolves; startProcessing runs to its second await or
\* to its end
UploadSettles(answer) ==
    /\ kPc = "upload"
    /\ uploadResponse' = answer
    /\ UNCHANGED processResponse
    /\ IF InvalidUpload(answer)
       THEN Catch(<<"Invalid upload answer format">>, <<ProcessorState("parsing", 30)>>)
       ELSE /\ processorState' = ProcessorState("extracting", 60)
            /\ stageLog' = stageLog \o <<"parsing", "extracting">>
            /\ kPc' = "process"
            /\ UNCHANGED <<uploaded, isProcessing, analysisResults, alerted>>
    /\ UNCHANGED <<txtVars, sanVars, fbVars, records, cmbVars, anVars, procVars>>

\* apiClient.processDocuments rejects; startProcessing runs to its end
ProcessRejects(message) ==
    /\ kPc = "process"
    /\ processResponse' = "rejected"
    /\ UNCHANGED uploadResponse
    /\ Catch(<<"Document processing failed: ", message>>, <<>>)
    /\ UNCHANGED <<txtVars, sanVars, fbVars, records, cmbVars, anVars, procVars>>

\* apiClient.processDocuments resolves; startProcessing runs to its end
ProcessSettles(answer) ==
    /\ kPc = "process"
    /\ processResponse' = answer
    /\ UNCHANGED uploadResponse
    /\ IF ProcessFault(answer) # <<>>
       THEN Catch(ProcessFault(answer), <<ProcessorState("analyzing", 85)>>)
       ELSE /\ uploaded' = WithStatus(uploaded, "completed")
            /\ analysisResults' = "results"
            /\ processorState' = ProcessorState("completed", 100)
            /\ stageLog' = stageLog \o <<"analyzing", "completed">>
            /\ isProcessing' = FALSE
            /\ kPc' = "idle"
            /\ UNCHANGED alerted
    /\ UNCHANGED <<txtVars, sanVars, fbVars, records, cmbVars, anVars, procVars>>

\* the New Analysis button: shown during a run and with the results, disabled
\* during a run
ResetProcessor ==
    /\ kPc = "idle"
    /\ isProcessing \/ showResults
    /\ ~isProcessing
    /\ uploaded' = <<>>
    /\ isProcessing' = FALSE
    /\ processorState' = ProcessorState("uploading", 0)
    /\ analysisResults' = "null"
    /\ UNCHANGED <<kPc, uploadResponse, processResponse, stageLog, alerted>>
    /\ UNCHANGED <<txtVars, sanVars, fbVars, records, cmbVars, anVars, procVars>>

ClientNext ==
    \/ \E n \in 1..MaxClientFiles : AddFiles(n)
    \/ \E at \in 1..MaxClientFiles : RemoveFile(at)
    \/ StartProcessing
    \/ \E message \in UploadRejections : UploadRejects(message)
    \/ \E answer \in UploadOutcomes : UploadSettles(answer)
    \/ \E message \in ProcessRejections : ProcessRejects(message)
    \/ \E answer \in ProcessOutcomes : ProcessSettles(answer)
    \/ ResetProcessor

SpecClient == ClientInit /\ [][ClientNext]_vars

\* ---------------------------------------------------------------------------
\* client hook claims
\* ---------------------------------------------------------------------------

StageOrder == <<"uploading", "parsing", "extracting", "analyzing", "completed">>

StageRank(stage) == CHOOSE i \in 1..Len(StageOrder) : StageOrder[i] = stage

\* the run the hook last started has ended by a throw
RunFailed == kPc = "idle" /\ alerted # <<>>

\* every step of the run the hook last started has succeeded
RunSucceeded ==
    kPc = "idle" /\ uploadResponse = "files" /\ processResponse = "complete"

AllFiles(status) == \A i \in 1..Len(uploaded) : uploaded[i] = status

\* the stages set within a run rise in StageOrder, the reset of a failed run
\* apart
StagesAdvance ==
    \A i \in 1..(Len(stageLog) - 1) :
        \/ StageRank(stageLog[i]) < StageRank(stageLog[i + 1])
        \/ i + 1 = Len(stageLog) /\ RunFailed /\ stageLog[i + 1] = "uploading"

HookStates ==
    /\ kPc = "idle" => ~isProcessing
    /\ analysisResults # "null" =>
           /\ RunSucceeded
           /\ processorState.currentStage = "completed"
           /\ AllFiles("completed")
    /\ RunFailed =>
           /\ analysisResults = "null"
           /\ processorState = ProcessorState("uploading", 0)
    /\ StagesAdvance

\* the step on which a run ends
RunEnds == kPc # "idle" /\ kPc' = "idle"

HookSteps ==
    RunEnds =>
        /\ Len(uploaded') >= 1
        /\ ~isProcessing'
        /\ RunSucceeded' \/ RunFailed'
        /\ RunFailed' => \A i \in 1..Len(uploaded') : uploaded'[i] = "error"
        /\ RunSucceeded' => analysisResults' # "null"

\* C30: every startProcessing run started with at least one file ends with
\* isProcessing false, whether upload, processing and response validation
\* succeeded or raised; results is non-null only after a run whose every step
\* succeeded, and then currentStage is 'completed' and every file has status
\* 'completed'; a run that failed ends with results null, every file in status
\* 'error' and the stage reset to 'uploading' with progress 0; within a run
\* the stages only advance in the order uploading, parsing, extracting,
\* analyzing, completed.
C30_RunOutcomes == []HookStates /\ [][HookSteps]_vars

\* a run failed at the validation of the processing response, after the
\* stages had advanced to analyzing
C30_Witness ==
    /\ kPc = "idle"
    /\ alerted = <<"Incomplete analysis results received">>
    /\ stageLog = <<"uploading", "parsing", "extracting", "analyzing", "uploading">>
    /\ AllFiles("error") /\ Len(uploaded) = MaxClientFiles
    /\ ~isProcessing

\* a run of which every step succeeded
C30_WitnessSuccess ==
    /\ RunSucceeded
    /\ analysisResults = "results"
    /\ stageLog = StageOrder
    /\ AllFiles("completed") /\ Len(uploaded) >= 1

====
